---- MODULE Spec2Model ----
(***************************************************************************)
(* The InfluxDB v2 Terraform provider: provider Configure, the readiness   *)
(* data source, and the bucket and authorization resources (Create / Read  *)
(* / Update / Delete / ImportState) against the remote store, as the       *)
(* Plugin Framework drives them.                                           *)
(*                                                                         *)
(* One behaviour follows one thing, chosen initially: a bucket, an         *)
(* authorization (one resource instance, as each acceptance test has), or  *)
(* the provider with its readiness data source.  Every handler is one      *)
(* action: the framework runs an operation to completion before it issues  *)
(* the next one.                                                           *)
(*                                                                         *)
(* The remote store is the InfluxDB server behind influxdb2.Client: it     *)
(* keeps what it is given, assigns ids and timestamps, omits empty         *)
(* optional strings from its responses, and any call may fail.             *)
(***************************************************************************)
EXTENDS Integers, Sequences, FiniteSets, TLC

VARIABLES
    kind,       \* what the behaviour follows: "bucket", "authorization" or "provider"
    provider,   \* the provider: the configuration and environment of its last
                \* Configure, the client it constructed, ResourceData, DataSourceData
    remote,     \* the remote store: buckets, authorizations, id counter, clock
    state,      \* the persisted Terraform state of the resource or of the data
                \* source: <<>> or <<model>>
    replacing,  \* <<>> or <<plan>>: the Create a replacement still owes after its Delete
    op,         \* the last operation: its name, the model it was given, the state before it
    calls,      \* the remote calls the last operation issued, in order
    diags,      \* the diagnostics the last operation returned
    created     \* <<>> or <<model>>: what the last successful Create persisted, while
                \* the remote entity is as Create left it

vars == <<kind, provider, remote, state, replacing, op, calls, diags, created>>

(***************************************************************************)
(* Bounds of the model.                                                    *)
(***************************************************************************)
MaxClock == 3       \* remote mutations in one behaviour (creates, updates, deletes)

(***************************************************************************)
(* Framework values.  A types.String is null, unknown or a known string;   *)
(* a Go pointer is nil or a value; a Go error is nil or its text.          *)
(***************************************************************************)
Null == "<null>"
Unknown == "<unknown>"
Nil == "<nil>"

ValueString(v) == IF v \in {Null, Unknown} THEN "" ELSE v

StringValue(s) == s

NullSet == [known |-> "null", elems |-> <<>>]
UnknownSet == [known |-> "unknown", elems |-> <<>>]
SetValue(elements) == [known |-> "known", elems |-> elements]

\* types.Set.Equal: same kind, same number of elements, each element of one in the other
SetEqual(a, b) ==
    /\ a.known = b.known
    /\ Len(a.elems) = Len(b.elems)
    /\ \A i \in 1..Len(a.elems) : \E j \in 1..Len(b.elems) : a.elems[i] = b.elems[j]

\* time.Time.String()
TimeString(t) == "T" \o ToString(t)

(***************************************************************************)
(* The remote store (the server behind influxdb2.Client).                  *)
(***************************************************************************)
NoFault == "<none>"
Faults == {NoFault, "connection refused"}

\* answers without an error that leave out what the provider goes on to use: a created
\* or listed entity without its id, no list at all.  Only a store that answers
\* sparsely gives them.
NoId == "<no id>"
NoList == "<no list>"
CreateOutcomes(store) == Faults \cup (IF store.sparse THEN {NoId} ELSE {})
ListOutcomes(store) == Faults \cup (IF store.sparse THEN {NoId, NoList} ELSE {})

BucketIdOf(n) == "bkt" \o ToString(n)
AuthIdOf(n) == "auth" \o ToString(n)

\* an optional string of a response: omitted (nil) when empty
OmitEmpty(s) == IF s = "" THEN Nil ELSE s

Deref(p) == IF p = Nil THEN "" ELSE p

BucketIndex(store, id) ==
    IF \E i \in 1..Len(store.buckets) : store.buckets[i].Id = id
    THEN CHOOSE i \in 1..Len(store.buckets) : store.buckets[i].Id = id
    ELSE 0

\* the bucket as a response carries it
BucketResponse(b) ==
    [Id |-> b.Id, Name |-> b.Name, Description |-> OmitEmpty(b.Description),
     OrgID |-> b.OrgID, Rp |-> OmitEmpty(b.Rp), RetentionRules |-> b.RetentionRules,
     CreatedAt |-> <<b.CreatedAt>>, UpdatedAt |-> <<b.UpdatedAt>>, Type |-> b.Type]

NoBucket ==
    [Id |-> Nil, Name |-> "", Description |-> Nil, OrgID |-> Nil, Rp |-> Nil,
     RetentionRules |-> <<>>, CreatedAt |-> <<>>, UpdatedAt |-> <<>>, Type |-> Nil]

CreateBucket(store, bucket, fault) ==
    IF fault \notin {NoFault, NoId}
    THEN [err |-> fault, result |-> NoBucket, store |-> store]
    ELSE LET b == [Id |-> BucketIdOf(store.nextId), Name |-> bucket.Name,
                   Description |-> Deref(bucket.Description), OrgID |-> Deref(bucket.OrgID),
                   Rp |-> Deref(bucket.Rp), RetentionRules |-> bucket.RetentionRules,
                   CreatedAt |-> store.clock, UpdatedAt |-> store.clock, Type |-> "user"]
         IN [err |-> Nil,
             result |-> IF fault = NoId THEN [BucketResponse(b) EXCEPT !.Id = Nil]
                        ELSE BucketResponse(b),
             store |-> [store EXCEPT !.buckets = Append(@, b),
                                     !.nextId = @ + 1, !.clock = @ + 1]]

FindBucketByID(store, id, fault) ==
    IF fault # NoFault
    THEN [err |-> fault, result |-> NoBucket]
    ELSE IF BucketIndex(store, id) = 0
    THEN [err |-> "bucket not found", result |-> NoBucket]
    ELSE [err |-> Nil, result |-> BucketResponse(store.buckets[BucketIndex(store, id)])]

UpdateBucket(store, bucket, fault) ==
    IF fault # NoFault
    THEN [err |-> fault, result |-> NoBucket, store |-> store]
    ELSE IF BucketIndex(store, Deref(bucket.Id)) = 0
    THEN [err |-> "bucket not found", result |-> NoBucket, store |-> store]
    ELSE LET i == BucketIndex(store, Deref(bucket.Id))
             b == [store.buckets[i] EXCEPT
                      !.Name = bucket.Name,
                      !.Description = Deref(bucket.Description),
                      !.Rp = Deref(bucket.Rp),
                      !.RetentionRules = bucket.RetentionRules,
                      !.UpdatedAt = store.clock]
         IN [err |-> Nil, result |-> BucketResponse(b),
             store |-> [store EXCEPT !.buckets[i] = b, !.clock = @ + 1]]

DeleteBucketWithID(store, id, fault) ==
    IF fault # NoFault
    THEN [err |-> fault, store |-> store]
    ELSE IF BucketIndex(store, id) = 0
    THEN [err |-> "bucket not found", store |-> store]
    ELSE [err |-> Nil,
          store |-> [store EXCEPT
                        !.buckets = SelectSeq(@, LAMBDA b : b.Id # id),
                        !.clock = @ + 1]]

(***************************************************************************)
(* The bucket resource.                                                    *)
(***************************************************************************)
Diag(summary, detail) == [summary |-> summary, detail |-> detail]

HasError(ds) == ds # <<>>

\* the context a remote call is made with: the one the request handed to the operation,
\* or a fresh context.Background()
RequestContext == "ctx"
Background == "context.Background()"
Call(api, arg, err) == [api |-> api, arg |-> arg, err |-> err, ctx |-> RequestContext]
BackgroundCall(api, arg, err) == [Call(api, arg, err) EXCEPT !.ctx = Background]

\* a bucket schema whose org_id lost its RequiresReplace modifier
BucketRequiresReplace_None == {}

\* the attributes of the bucket schema that carry RequiresReplace
BucketRequiresReplace == {"org_id"}

\* a bucket schema whose id lost its UseStateForUnknown modifier
BucketUseStateForUnknown_NoId == {"created_at", "type"}

\* the attributes of the bucket schema that carry UseStateForUnknown
BucketUseStateForUnknown == {"id", "created_at", "type"}

\* convertRetentionRulesToDomain that takes a set it cannot read for an empty one
convertRetentionRulesToDomain_Lenient(rulesSet) ==
    [err |-> Nil,
     rules |-> [i \in 1..Len(rulesSet.elems) |->
                  [EverySeconds |-> rulesSet.elems[i].every_seconds,
                   Type |-> ValueString(rulesSet.elems[i].type)]]]

convertRetentionRulesToDomain(rulesSet) ==
    IF rulesSet.known = "unknown"
    THEN [err |-> "error converting retention rules set", rules |-> <<>>]
    ELSE [err |-> Nil,
          rules |-> [i \in 1..Len(rulesSet.elems) |->
                        [EverySeconds |-> rulesSet.elems[i].every_seconds,
                         Type |-> ValueString(rulesSet.elems[i].type)]]]

\* convertRetentionRulesToTerraform that passes an unset type on as null
convertRetentionRulesToTerraform_NoDefault(domainRules) ==
    SetValue([i \in 1..Len(domainRules) |->
                [every_seconds |-> domainRules[i].EverySeconds,
                 type |-> IF domainRules[i].Type # Nil
                          THEN StringValue(domainRules[i].Type)
                          ELSE Null]])

convertRetentionRulesToTerraform(domainRules) ==
    SetValue([i \in 1..Len(domainRules) |->
                [every_seconds |-> domainRules[i].EverySeconds,
                 type |-> IF domainRules[i].Type # Nil
                          THEN StringValue(domainRules[i].Type)
                          ELSE StringValue("expire")]])

\* populateBucket without the organization: org_id is left as given
populateBucket_NoOrg(model, result) ==
    [id |-> model.id,
     name |-> StringValue(result.Name),
     description |-> IF result.Description # Nil
                     THEN StringValue(result.Description) ELSE StringValue(""),
     org_id |-> model.org_id,
     retention_rules |-> convertRetentionRulesToTerraform(result.RetentionRules),
     rp |-> IF result.Rp # Nil THEN StringValue(result.Rp) ELSE StringValue(""),
     created_at |-> IF result.CreatedAt # <<>>
                    THEN StringValue(TimeString(result.CreatedAt[1]))
                    ELSE model.created_at,
     updated_at |-> IF result.UpdatedAt # <<>>
                    THEN StringValue(TimeString(result.UpdatedAt[1]))
                    ELSE model.updated_at,
     type |-> IF result.Type # Nil THEN StringValue(result.Type) ELSE model.type]

\* populateBucket without the timestamps: created_at and updated_at are left as given
populateBucket_NoTimestamps(model, result) ==
    [id |-> model.id,
     name |-> StringValue(result.Name),
     description |-> IF result.Description # Nil
                     THEN StringValue(result.Description) ELSE StringValue(""),
     org_id |-> IF result.OrgID # Nil THEN StringValue(result.OrgID) ELSE model.org_id,
     retention_rules |-> convertRetentionRulesToTerraform(result.RetentionRules),
     rp |-> IF result.Rp # Nil THEN StringValue(result.Rp) ELSE StringValue(""),
     created_at |-> model.created_at,
     updated_at |-> model.updated_at,
     type |-> IF result.Type # Nil THEN StringValue(result.Type) ELSE model.type]

\* populateBucket that leaves description and rp as given when the bucket has none
populateBucket_KeepsAbsent(model, result) ==
    [populateBucket_NoOrg(model, result) EXCEPT
        !.org_id = IF result.OrgID # Nil THEN StringValue(result.OrgID) ELSE model.org_id,
        !.description = IF result.Description # Nil
                        THEN StringValue(result.Description) ELSE model.description,
        !.rp = IF result.Rp # Nil THEN StringValue(result.Rp) ELSE model.rp]

\* populateBucket that takes created_at from what the model held as updated_at
populateBucket_ShiftsTimestamps(model, result) ==
    [populateBucket_NoOrg(model, result) EXCEPT
        !.org_id = IF result.OrgID # Nil THEN StringValue(result.OrgID) ELSE model.org_id,
        !.created_at = model.updated_at]

\* readBucket, lines 329-365: the model updated with the data of the found bucket
populateBucket(model, result) ==
    [id |-> model.id,
     name |-> StringValue(result.Name),
     description |-> IF result.Description # Nil
                     THEN StringValue(result.Description) ELSE StringValue(""),
     org_id |-> IF result.OrgID # Nil THEN StringValue(result.OrgID) ELSE model.org_id,
     retention_rules |-> convertRetentionRulesToTerraform(result.RetentionRules),
     rp |-> IF result.Rp # Nil THEN StringValue(result.Rp) ELSE StringValue(""),
     created_at |-> IF result.CreatedAt # <<>>
                    THEN StringValue(TimeString(result.CreatedAt[1]))
                    ELSE model.created_at,
     updated_at |-> IF result.UpdatedAt # <<>>
                    THEN StringValue(TimeString(result.UpdatedAt[1]))
                    ELSE model.updated_at,
     type |-> IF result.Type # Nil THEN StringValue(result.Type) ELSE model.type]

\* readBucket that tries a failed lookup a second time
readBucket_Retries(store, model, fault) ==
    LET first == FindBucketByID(store, ValueString(model.id), fault)
        found == IF first.err # Nil
                 THEN FindBucketByID(store, ValueString(model.id), NoFault)
                 ELSE first
        attempts == IF first.err # Nil
                    THEN <<Call("FindBucketByID", ValueString(model.id), first.err),
                           Call("FindBucketByID", ValueString(model.id), found.err)>>
                    ELSE <<Call("FindBucketByID", ValueString(model.id), first.err)>>
    IN IF found.err # Nil
       THEN [err |-> "error finding bucket: " \o found.err, model |-> model,
             calls |-> attempts]
       ELSE [err |-> Nil, model |-> populateBucket(model, found.result),
             calls |-> attempts]

\* readBucket: the call it issues, the error it returns and the model it leaves
readBucket(store, model, fault) ==
    LET found == FindBucketByID(store, ValueString(model.id), fault)
        call == Call("FindBucketByID", ValueString(model.id), found.err)
    IN IF found.err # Nil
       THEN [err |-> "error finding bucket: " \o found.err, model |-> model,
             calls |-> <<call>>]
       ELSE [err |-> Nil, model |-> populateBucket(model, found.result),
             calls |-> <<call>>]

\* what a handler hands back: its diagnostics, whether it called State.Set and
\* with which model, the store after its calls, the calls, and whether it panicked
Outcome(ds, set, model, store, cs, panic) ==
    [diags |-> ds, set |-> set, model |-> model, store |-> store, calls |-> cs,
     panic |-> panic]

\* createBucketFailed with a diagnostic that leaves the remote error out
createBucketFailed_NoText(plan, made, call) ==
    Outcome(<<Diag("Error Creating Bucket", "Could not create bucket, unexpected error: ")>>,
            FALSE, plan, made.store, <<call>>, FALSE)

\* Create, lines 188-194: the remote create failed
createBucketFailed(plan, made, call) ==
    Outcome(<<Diag("Error Creating Bucket",
                   "Could not create bucket, unexpected error: " \o made.err)>>,
            FALSE, plan, made.store, <<call>>, FALSE)

\* Create that takes the bucket back out of the store when the read after it fails
BucketResource_Create_RollsBack(store, plan, fault1, fault2) ==
    LET conv == convertRetentionRulesToDomain(plan.retention_rules)
        newBucket == [Id |-> Nil, Description |-> ValueString(plan.description),
                      Name |-> ValueString(plan.name), OrgID |-> ValueString(plan.org_id),
                      RetentionRules |-> conv.rules, Rp |-> ValueString(plan.rp)]
        made == CreateBucket(store, newBucket, fault1)
        call == Call("CreateBucket", newBucket, made.err)
        withId == [plan EXCEPT !.id = StringValue(made.result.Id)]
        read == readBucket(made.store, withId, fault2)
    IN IF conv.err # Nil
       THEN Outcome(<<Diag("Error Converting Retention Rules",
                           "Could not convert retention rules: " \o conv.err)>>,
                    FALSE, plan, store, <<>>, FALSE)
       ELSE IF made.err # Nil
       THEN createBucketFailed(plan, made, call)
       ELSE IF made.result.Id = Nil
       THEN Outcome(<<>>, FALSE, plan, made.store, <<call>>, TRUE)
       ELSE IF read.err # Nil
       THEN Outcome(<<Diag("Error Reading Bucket After Creation",
                           "Could not read bucket after creation: " \o read.err)>>,
                    FALSE, withId,
                    DeleteBucketWithID(made.store, made.result.Id, NoFault).store,
                    <<call>> \o read.calls, FALSE)
       ELSE Outcome(<<>>, TRUE, read.model, made.store, <<call>> \o read.calls, FALSE)

BucketResource_Create(store, plan, fault1, fault2) ==
    LET conv == convertRetentionRulesToDomain(plan.retention_rules)
        newBucket == [Id |-> Nil, Description |-> ValueString(plan.description),
                      Name |-> ValueString(plan.name), OrgID |-> ValueString(plan.org_id),
                      RetentionRules |-> conv.rules, Rp |-> ValueString(plan.rp)]
        made == CreateBucket(store, newBucket, fault1)
        call == Call("CreateBucket", newBucket, made.err)
        withId == [plan EXCEPT !.id = StringValue(made.result.Id)]
        read == readBucket(made.store, withId, fault2)
    IN IF conv.err # Nil
       THEN Outcome(<<Diag("Error Converting Retention Rules",
                           "Could not convert retention rules: " \o conv.err)>>,
                    FALSE, plan, store, <<>>, FALSE)
       ELSE IF made.err # Nil
       THEN createBucketFailed(plan, made, call)
       ELSE IF made.result.Id = Nil
       THEN Outcome(<<>>, FALSE, plan, made.store, <<call>>, TRUE)
       ELSE IF read.err # Nil
       THEN Outcome(<<Diag("Error Reading Bucket After Creation",
                           "Could not read bucket after creation: " \o read.err)>>,
                    FALSE, withId, made.store, <<call>> \o read.calls, FALSE)
       ELSE Outcome(<<>>, TRUE, read.model, made.store, <<call>> \o read.calls, FALSE)

BucketResource_Read(store, prior, fault) ==
    LET read == readBucket(store, prior, fault)
    IN IF read.err # Nil
       THEN Outcome(<<Diag("Error Reading Bucket",
                           "Could not read bucket ID " \o ValueString(prior.id)
                               \o ": " \o read.err)>>,
                    FALSE, prior, store, read.calls, FALSE)
       ELSE Outcome(<<>>, TRUE, read.model, store, read.calls, FALSE)

\* Update that persists the plan as sent, without reading the bucket back
BucketResource_Update_NoReread(store, plan, fault1, fault2) ==
    LET conv == convertRetentionRulesToDomain(plan.retention_rules)
        updateBucket == [Id |-> ValueString(plan.id),
                         Description |-> ValueString(plan.description),
                         Name |-> ValueString(plan.name),
                         OrgID |-> ValueString(plan.org_id),
                         RetentionRules |-> conv.rules, Rp |-> ValueString(plan.rp)]
        upd == UpdateBucket(store, updateBucket, fault1)
        call == Call("UpdateBucket", updateBucket, upd.err)
    IN IF upd.err # Nil
       THEN Outcome(<<Diag("Error Updating Bucket",
                           "Could not update bucket, unexpected error: " \o upd.err)>>,
                    FALSE, plan, upd.store, <<call>>, FALSE)
       ELSE Outcome(<<>>, TRUE, plan, upd.store, <<call>>, FALSE)

BucketResource_Update(store, plan, fault1, fault2) ==
    LET conv == convertRetentionRulesToDomain(plan.retention_rules)
        updateBucket == [Id |-> ValueString(plan.id),
                         Description |-> ValueString(plan.description),
                         Name |-> ValueString(plan.name),
                         OrgID |-> ValueString(plan.org_id),
                         RetentionRules |-> conv.rules, Rp |-> ValueString(plan.rp)]
        upd == UpdateBucket(store, updateBucket, fault1)
        call == Call("UpdateBucket", updateBucket, upd.err)
        read == readBucket(upd.store, plan, fault2)
    IN IF conv.err # Nil
       THEN Outcome(<<Diag("Error Converting Retention Rules",
                           "Could not convert retention rules: " \o conv.err)>>,
                    FALSE, plan, store, <<>>, FALSE)
       ELSE IF upd.err # Nil
       THEN Outcome(<<Diag("Error Updating Bucket",
                           "Could not update bucket, unexpected error: " \o upd.err)>>,
                    FALSE, plan, upd.store, <<call>>, FALSE)
       ELSE IF read.err # Nil
       THEN Outcome(<<Diag("Error Reading Bucket After Update",
                           "Could not read bucket after update: " \o read.err)>>,
                    FALSE, plan, upd.store, <<call>> \o read.calls, FALSE)
       ELSE Outcome(<<>>, TRUE, read.model, upd.store, <<call>> \o read.calls, FALSE)

\* Delete that takes "already gone" for success
BucketResource_Delete_IgnoresNotFound(store, prior, fault) ==
    LET del == DeleteBucketWithID(store, ValueString(prior.id), fault)
        call == Call("DeleteBucketWithID", ValueString(prior.id), del.err)
    IN IF del.err # Nil /\ del.err # "bucket not found"
       THEN Outcome(<<Diag("Error Deleting Bucket",
                           "Could not delete bucket, unexpected error: " \o del.err)>>,
                    FALSE, prior, del.store, <<call>>, FALSE)
       ELSE Outcome(<<>>, FALSE, prior, del.store, <<call>>, FALSE)

BucketResource_Delete(store, prior, fault) ==
    LET del == DeleteBucketWithID(store, ValueString(prior.id), fault)
        call == Call("DeleteBucketWithID", ValueString(prior.id), del.err)
    IN IF del.err # Nil
       THEN Outcome(<<Diag("Error Deleting Bucket",
                           "Could not delete bucket, unexpected error: " \o del.err)>>,
                    FALSE, prior, del.store, <<call>>, FALSE)
       ELSE Outcome(<<>>, FALSE, prior, del.store, <<call>>, FALSE)

\* resource.ImportStatePassthroughID on path "id": only id is set
BucketResource_ImportState(id) ==
    [id |-> StringValue(id), name |-> Null, description |-> Null, org_id |-> Null,
     retention_rules |-> NullSet, rp |-> Null, created_at |-> Null,
     updated_at |-> Null, type |-> Null]

(***************************************************************************)
(* The remote store: authorizations.                                       *)
(***************************************************************************)
AuthIndex(store, id) ==
    IF \E i \in 1..Len(store.auths) : store.auths[i].Id = id
    THEN CHOOSE i \in 1..Len(store.auths) : store.auths[i].Id = id
    ELSE 0

\* the authorization as the create response carries it
AuthResponse(a) ==
    [Id |-> a.Id, OrgID |-> a.OrgID, Description |-> OmitEmpty(a.Description),
     Status |-> a.Status, Permissions |-> a.Permissions, Token |-> a.Token,
     UserID |-> a.UserID]

\* the authorization as the list carries it: a server that does not expose
\* tokens on list leaves Token out
AuthListed(store, a) ==
    [AuthResponse(a) EXCEPT !.Token = IF store.listTokens THEN a.Token ELSE Nil]

NoAuth ==
    [Id |-> Nil, OrgID |-> Nil, Description |-> Nil, Status |-> Nil,
     Permissions |-> <<>>, Token |-> Nil, UserID |-> Nil]

CreateAuthorization(store, authorization, fault) ==
    IF fault \notin {NoFault, NoId}
    THEN [err |-> fault, result |-> NoAuth, store |-> store]
    ELSE LET a == [Id |-> AuthIdOf(store.nextId), OrgID |-> Deref(authorization.OrgID),
                   Description |-> Deref(authorization.Description),
                   Status |-> authorization.Status,
                   Permissions |-> authorization.Permissions,
                   Token |-> "token" \o ToString(store.nextId),
                   UserID |-> "user0"]
         IN [err |-> Nil,
             result |-> IF fault = NoId THEN [AuthResponse(a) EXCEPT !.Id = Nil]
                        ELSE AuthResponse(a),
             store |-> [store EXCEPT !.auths = Append(@, a),
                                     !.nextId = @ + 1, !.clock = @ + 1]]

\* the authorizations of one organization; an empty organization id filters nothing.
\* The result is a pointer to the list: <<>> for nil, <<list>> otherwise.
FindAuthorizationsByOrgID(store, orgID, fault) ==
    IF fault \notin {NoFault, NoId, NoList}
    THEN [err |-> fault, result |-> <<>>]
    ELSE IF fault = NoList
    THEN [err |-> Nil, result |-> <<>>]
    ELSE [err |-> Nil,
          result |-> LET mine == SelectSeq(store.auths,
                                           LAMBDA a : orgID = "" \/ a.OrgID = orgID)
                     IN <<[i \in 1..Len(mine) |->
                            IF fault = NoId
                            THEN [AuthListed(store, mine[i]) EXCEPT !.Id = Nil]
                            ELSE AuthListed(store, mine[i])]>>]

UpdateAuthorizationStatus(store, authorization, status, fault) ==
    IF fault # NoFault
    THEN [err |-> fault, result |-> NoAuth, store |-> store]
    ELSE IF AuthIndex(store, Deref(authorization.Id)) = 0
    THEN [err |-> "authorization not found", result |-> NoAuth, store |-> store]
    ELSE LET i == AuthIndex(store, Deref(authorization.Id))
             a == [store.auths[i] EXCEPT !.Status = status]
         IN [err |-> Nil, result |-> AuthResponse(a),
             store |-> [store EXCEPT !.auths[i] = a, !.clock = @ + 1]]

DeleteAuthorization(store, authorization, fault) ==
    IF fault # NoFault
    THEN [err |-> fault, store |-> store]
    ELSE IF AuthIndex(store, Deref(authorization.Id)) = 0
    THEN [err |-> "authorization not found", store |-> store]
    ELSE [err |-> Nil,
          store |-> [store EXCEPT
                        !.auths = SelectSeq(@, LAMBDA a : a.Id # Deref(authorization.Id)),
                        !.clock = @ + 1]]

(***************************************************************************)
(* The authorization resource.                                             *)
(***************************************************************************)
\* the attributes of the authorization schema that carry RequiresReplace
AuthorizationRequiresReplace == {"org_id"}

\* the attributes of the authorization schema that carry UseStateForUnknown
AuthorizationUseStateForUnknown == {"id", "user_id", "user_org_id", "token"}

RECURSIVE Flatten(_)
Flatten(ss) == IF ss = <<>> THEN <<>> ELSE Head(ss) \o Flatten(Tail(ss))

\* convertPermissionsToDomain that expands a permission into its first resource only
convertPermissionsToDomain_FirstResource(permsSet) ==
    [err |-> Nil,
     permissions |->
        Flatten([i \in 1..Len(permsSet.elems) |->
           LET perm == permsSet.elems[i]
           IN [j \in 1..(IF Len(perm.resource.elems) > 0 THEN 1 ELSE 0) |->
                 LET res == perm.resource.elems[j]
                 IN [Action |-> ValueString(perm.action),
                     Resource |-> [Type |-> ValueString(res.type),
                                   Id |-> ValueString(res.id),
                                   OrgID |-> ValueString(res.org_id),
                                   Name |-> "",
                                   Org |-> ValueString(res.org)]]]])]

convertPermissionsToDomain(permsSet) ==
    IF permsSet.known = "unknown"
    THEN [err |-> "error converting permissions set", permissions |-> <<>>]
    ELSE IF \E i \in 1..Len(permsSet.elems) : permsSet.elems[i].resource.known = "unknown"
    THEN [err |-> "error converting resources set", permissions |-> <<>>]
    ELSE [err |-> Nil,
          permissions |->
             Flatten([i \in 1..Len(permsSet.elems) |->
                LET perm == permsSet.elems[i]
                IN [j \in 1..Len(perm.resource.elems) |->
                      LET res == perm.resource.elems[j]
                      IN [Action |-> ValueString(perm.action),
                          Resource |-> [Type |-> ValueString(res.type),
                                        Id |-> ValueString(res.id),
                                        OrgID |-> ValueString(res.org_id),
                                        Name |-> "",
                                        Org |-> ValueString(res.org)]]]])]

\* the first listed authorization with the model's id, or 0; -1 when the search
\* dereferences a nil Id before it gets there
SearchAuthorization(authorizations, id) ==
    LET hits == {i \in 1..Len(authorizations) :
                    authorizations[i].Id # Nil /\ authorizations[i].Id = id}
        nils == {i \in 1..Len(authorizations) : authorizations[i].Id = Nil}
        first(S) == CHOOSE i \in S : \A j \in S : i <= j
    IN IF hits = {}
       THEN IF nils = {} THEN 0 ELSE 0 - 1
       ELSE IF nils # {} /\ first(nils) < first(hits) THEN 0 - 1 ELSE first(hits)

\* authorizationNotFound that reports nothing and leaves the model as it is
authorizationNotFound_Silent(model, call) ==
    [err |-> Nil, model |-> model, calls |-> <<call>>, panic |-> FALSE]

\* readAuthorization, lines 346-348: no listed authorization has the model's id
authorizationNotFound(model, call) ==
    [err |-> "authorization not found", model |-> model, calls |-> <<call>>,
     panic |-> FALSE]

\* populateAuthorization that also takes the permissions from the list, which has none
populateAuthorization_RefreshesPermissions(model, auth) ==
    [model EXCEPT
        !.status = IF auth.Status # Nil THEN StringValue(auth.Status) ELSE @,
        !.user_id = IF auth.UserID # Nil THEN StringValue(auth.UserID) ELSE @,
        !.user_org_id = IF auth.OrgID # Nil THEN StringValue(auth.OrgID) ELSE @,
        !.token = IF auth.Token # Nil THEN StringValue(auth.Token) ELSE @,
        !.permissions = NullSet]

\* populateAuthorization without the user's organization
populateAuthorization_NoUserOrg(model, auth) ==
    [model EXCEPT
        !.status = IF auth.Status # Nil THEN StringValue(auth.Status) ELSE @,
        !.user_id = IF auth.UserID # Nil THEN StringValue(auth.UserID) ELSE @,
        !.token = IF auth.Token # Nil THEN StringValue(auth.Token) ELSE @]

\* readAuthorization, lines 350-367: the model updated with the listed authorization
\* populateAuthorization that also takes the organization and the description
populateAuthorization_SetsOrg(model, auth) ==
    [model EXCEPT
        !.org_id = IF auth.OrgID # Nil THEN StringValue(auth.OrgID) ELSE @,
        !.description = IF auth.Description # Nil THEN StringValue(auth.Description) ELSE @,
        !.status = IF auth.Status # Nil THEN StringValue(auth.Status) ELSE @,
        !.user_id = IF auth.UserID # Nil THEN StringValue(auth.UserID) ELSE @,
        !.user_org_id = IF auth.OrgID # Nil THEN StringValue(auth.OrgID) ELSE @,
        !.token = IF auth.Token # Nil THEN StringValue(auth.Token) ELSE @]

populateAuthorization(model, auth) ==
    [model EXCEPT
        !.status = IF auth.Status # Nil THEN StringValue(auth.Status) ELSE @,
        !.user_id = IF auth.UserID # Nil THEN StringValue(auth.UserID) ELSE @,
        !.user_org_id = IF auth.OrgID # Nil THEN StringValue(auth.OrgID) ELSE @,
        !.token = IF auth.Token # Nil THEN StringValue(auth.Token) ELSE @]

readAuthorization(store, model, fault) ==
    LET found == FindAuthorizationsByOrgID(store, ValueString(model.org_id), fault)
        call == Call("FindAuthorizationsByOrgID", ValueString(model.org_id), found.err)
        authorizations == found.result
        at == SearchAuthorization(authorizations[1], ValueString(model.id))
    IN IF found.err # Nil
       THEN [err |-> "error finding authorizations: " \o found.err, model |-> model,
             calls |-> <<call>>, panic |-> FALSE]
       ELSE IF authorizations = <<>> \/ at < 0
       THEN [err |-> Nil, model |-> model, calls |-> <<call>>, panic |-> TRUE]
       ELSE IF at = 0
       THEN authorizationNotFound(model, call)
       ELSE [err |-> Nil, model |-> populateAuthorization(model, authorizations[1][at]),
             calls |-> <<call>>, panic |-> FALSE]

AuthorizationResource_Create(store, plan, fault) ==
    LET conv == convertPermissionsToDomain(plan.permissions)
        authorization == [Id |-> Nil, Description |-> ValueString(plan.description),
                          Status |-> ValueString(plan.status),
                          OrgID |-> ValueString(plan.org_id),
                          Permissions |-> conv.permissions]
        made == CreateAuthorization(store, authorization, fault)
        result == made.result
        call == Call("CreateAuthorization", authorization, made.err)
    IN IF conv.err # Nil
       THEN Outcome(<<Diag("Error Converting Permissions",
                           "Could not convert permissions: " \o conv.err)>>,
                    FALSE, plan, store, <<>>, FALSE)
       ELSE IF made.err # Nil
       THEN Outcome(<<Diag("Error Creating Authorization",
                           "Could not create authorization: " \o made.err)>>,
                    FALSE, plan, made.store, <<call>>, FALSE)
       ELSE IF result.Id = Nil
       THEN Outcome(<<>>, FALSE, plan, made.store, <<call>>, TRUE)
       ELSE Outcome(<<>>, TRUE,
                    [plan EXCEPT
                        !.id = StringValue(result.Id),
                        !.token = IF result.Token # Nil THEN StringValue(result.Token) ELSE @,
                        !.user_id = IF result.UserID # Nil
                                    THEN StringValue(result.UserID) ELSE @,
                        !.user_org_id = IF result.OrgID # Nil
                                        THEN StringValue(result.OrgID) ELSE @],
                    made.store, <<call>>, FALSE)

AuthorizationResource_Read(store, prior, fault) ==
    LET read == readAuthorization(store, prior, fault)
    IN IF read.panic
       THEN Outcome(<<>>, FALSE, prior, store, read.calls, TRUE)
       ELSE IF read.err # Nil
       THEN Outcome(<<Diag("Error Reading Authorization",
                           "Could not read authorization ID " \o ValueString(prior.id)
                               \o ": " \o read.err)>>,
                    FALSE, prior, store, read.calls, FALSE)
       ELSE Outcome(<<>>, TRUE, read.model, store, read.calls, FALSE)

\* statusUpdate that always activates
statusUpdate_Active(plan) == "active"

\* Update, line 272: the status sent to the remote store
statusUpdate(plan) == ValueString(plan.status)

\* Update that sends the plan's description along with the status
AuthorizationResource_Update_SendsDescription(store, plan, fault1, fault2) ==
    LET authorization == [Id |-> ValueString(plan.id)]
        sent == UpdateAuthorizationStatus(store, authorization, statusUpdate(plan), fault1)
        upd == IF sent.err # Nil THEN sent
               ELSE [sent EXCEPT !.store.auths[AuthIndex(store, authorization.Id)].Description =
                                    ValueString(plan.description)]
        call == Call("UpdateAuthorizationStatus",
                     [Id |-> authorization.Id, Status |-> statusUpdate(plan)], upd.err)
        read == readAuthorization(upd.store, plan, fault2)
    IN IF upd.err # Nil
       THEN Outcome(<<Diag("Error Updating Authorization",
                           "Could not update authorization status: " \o upd.err)>>,
                    FALSE, plan, upd.store, <<call>>, FALSE)
       ELSE IF read.panic
       THEN Outcome(<<>>, FALSE, plan, upd.store, <<call>> \o read.calls, TRUE)
       ELSE IF read.err # Nil
       THEN Outcome(<<Diag("Error Reading Authorization After Update",
                           "Could not read authorization after update: " \o read.err)>>,
                    FALSE, plan, upd.store, <<call>> \o read.calls, FALSE)
       ELSE Outcome(<<>>, TRUE, read.model, upd.store, <<call>> \o read.calls, FALSE)

AuthorizationResource_Update(store, plan, fault1, fault2) ==
    LET authorization == [Id |-> ValueString(plan.id)]
        upd == UpdateAuthorizationStatus(store, authorization, statusUpdate(plan), fault1)
        call == Call("UpdateAuthorizationStatus",
                     [Id |-> authorization.Id, Status |-> statusUpdate(plan)], upd.err)
        read == readAuthorization(upd.store, plan, fault2)
    IN IF upd.err # Nil
       THEN Outcome(<<Diag("Error Updating Authorization",
                           "Could not update authorization status: " \o upd.err)>>,
                    FALSE, plan, upd.store, <<call>>, FALSE)
       ELSE IF read.panic
       THEN Outcome(<<>>, FALSE, plan, upd.store, <<call>> \o read.calls, TRUE)
       ELSE IF read.err # Nil
       THEN Outcome(<<Diag("Error Reading Authorization After Update",
                           "Could not read authorization after update: " \o read.err)>>,
                    FALSE, plan, upd.store, <<call>> \o read.calls, FALSE)
       ELSE Outcome(<<>>, TRUE, read.model, upd.store, <<call>> \o read.calls, FALSE)

AuthorizationResource_Delete(store, prior, fault) ==
    LET authorization == [Id |-> ValueString(prior.id)]
        del == DeleteAuthorization(store, authorization, fault)
        call == Call("DeleteAuthorization", authorization.Id, del.err)
    IN IF del.err # Nil
       THEN Outcome(<<Diag("Error Deleting Authorization",
                           "Could not delete authorization: " \o del.err)>>,
                    FALSE, prior, del.store, <<call>>, FALSE)
       ELSE Outcome(<<>>, FALSE, prior, del.store, <<call>>, FALSE)

\* resource.ImportStatePassthroughID on path "id": only id is set
AuthorizationResource_ImportState(id) ==
    [id |-> StringValue(id), org_id |-> Null, description |-> Null, status |-> Null,
     permissions |-> NullSet, user_id |-> Null, user_org_id |-> Null, token |-> Null]

(***************************************************************************)
(* The provider and its readiness data source.                             *)
(***************************************************************************)
\* a types.Bool: null or a known boolean
NullBool == <<>>
BoolValue(b) == <<b>>

\* what the readiness endpoint can answer: an error, a result with its status and
\* start time, a result without a status, and, from a store that answers sparsely,
\* no result at all
NoStatus == "<no status>"
Absent == "<absent>"
ReadyOutcomes(store) ==
    Faults \cup {NoStatus} \cup (IF store.sparse THEN {Absent} ELSE {})

Ready(store, outcome) ==
    IF outcome = NoFault
    THEN [err |-> Nil, result |-> <<[Status |-> "ready", Started |-> <<store.started>>]>>]
    ELSE IF outcome = NoStatus
    THEN [err |-> Nil, result |-> <<[Status |-> Nil, Started |-> <<>>]>>]
    ELSE IF outcome = Absent
    THEN [err |-> Nil, result |-> <<>>]
    ELSE [err |-> outcome, result |-> <<>>]

NewClientWithOptions(url, token) == [serverURL |-> url, token |-> token]

ServerURL(client) == client.serverURL

\* resolveURL without the built-in url
resolveURL_NoDefault(config, env) ==
    IF config.url # Null THEN ValueString(config.url) ELSE env.INFLUXDB_V2_URL

\* Configure, lines 81-87: the url of the configuration when it is not null, else the
\* environment's; the built-in one when that is empty
resolveURL(config, env) ==
    LET url == IF config.url # Null THEN ValueString(config.url)
               ELSE env.INFLUXDB_V2_URL
    IN IF url = "" THEN "http://localhost:8086" ELSE url

\* Configure, lines 89-92
resolveToken(config, env) ==
    IF config.token # Null THEN ValueString(config.token) ELSE env.INFLUXDB_V2_TOKEN

\* what Configure hands back: its diagnostics, the client it constructed, the calls it
\* made, and what it put in ResourceData and DataSourceData
Configured(ds, client, cs, resourceData, dataSourceData) ==
    [diags |-> ds, client |-> client, calls |-> cs, ResourceData |-> resourceData,
     DataSourceData |-> dataSourceData]

\* missingConfiguration that lets an empty url or token through
missingConfiguration_None(url, token) == <<>>

\* Configure, lines 94-116: the diagnostics for what could not be resolved
missingConfiguration(url, token) ==
    (IF url = ""
     THEN <<Diag("Missing InfluxDB URL Configuration",
                 "While configuring the provider, the InfluxDB URL was not found in "
                    \o "the INFLUXDB_V2_URL environment variable or provider "
                    \o "configuration block url attribute.")>>
     ELSE <<>>)
    \o
    (IF token = ""
     THEN <<Diag("Missing InfluxDB Token Configuration",
                 "While configuring the provider, the InfluxDB token was not found in "
                    \o "the INFLUXDB_V2_TOKEN environment variable or provider "
                    \o "configuration block token attribute.")>>
     ELSE <<>>)

\* notReady that lets a result without a status through
notReady_NilOnly(ready) == ready = <<>>

\* Configure, line 139: the probe's result cannot be taken for a ready server
notReady(ready) == ready = <<>> \/ ready[1].Status = Nil

influxdbProvider_Configure(store, config, env, outcome) ==
    LET url == resolveURL(config, env)
        token == resolveToken(config, env)
        missing == missingConfiguration(url, token)
        client == NewClientWithOptions(url, token)
        probe == Ready(store, outcome)
        call == Call("Ready", client, probe.err)
    IN IF HasError(missing)
       THEN Configured(missing, <<>>, <<>>, <<>>, <<>>)
       ELSE IF probe.err # Nil
       THEN Configured(<<Diag("Unable to Connect to InfluxDB Server",
                              "An unexpected error occurred when connecting to the "
                                 \o "InfluxDB server. If the error is not clear, please "
                                 \o "contact the provider developers.\n\n"
                                 \o "InfluxDB Client Error: " \o probe.err)>>,
                       <<client>>, <<call>>, <<>>, <<>>)
       ELSE IF notReady(probe.result)
       THEN Configured(<<Diag("InfluxDB Server Not Ready",
                              "The InfluxDB server is not ready to accept connections.")>>,
                       <<client>>, <<call>>, <<>>, <<>>)
       ELSE Configured(<<>>, <<client>>, <<call>>, <<client>>, <<client>>)

\* schema.EnvDefaultFunc of the SDK v2 provider schema: the environment variable when
\* it is not empty, else the default
EnvDefaultFunc(value, dv) == IF value # "" THEN value ELSE dv

\* d.Get of the SDK v2 provider: the attribute of the provider block when it is set,
\* else what its DefaultFunc yields
Provider(config, env) ==
    [url |-> IF config.url # Null THEN ValueString(config.url)
             ELSE EnvDefaultFunc(env.INFLUXDB_V2_URL, "http://localhost:8086"),
     token |-> IF config.token # Null THEN ValueString(config.token)
               ELSE EnvDefaultFunc(env.INFLUXDB_V2_TOKEN, "")]

\* providerConfigure of the SDK v2 provider: the client as meta, or an error
providerConfigure(store, d, outcome) ==
    LET influx == NewClientWithOptions(d.url, d.token)
        probe == Ready(store, outcome)
        call == BackgroundCall("Ready", influx, probe.err)
    IN IF probe.err # Nil
       THEN Configured(<<Diag("error pinging server: " \o probe.err, "")>>,
                       <<>>, <<call>>, <<>>, <<>>)
       ELSE Configured(<<>>, <<influx>>, <<call>>, <<influx>>, <<influx>>)

\* DataGetReady of the SDK v2 readiness data source; ready.Started.Before dereferences
\* the start time of the result
DataGetReady(store, influx, outcome) ==
    LET probe == Ready(store, outcome)
        call == BackgroundCall("Ready", influx, probe.err)
        nothing == [id |-> Null, output |-> [url |-> ""]]
    IN IF probe.err # Nil
       THEN Outcome(<<Diag("server is not ready: " \o probe.err, "")>>,
                    FALSE, nothing, store, <<call>>, FALSE)
       ELSE IF probe.result = <<>> \/ probe.result[1].Started = <<>>
       THEN Outcome(<<>>, FALSE, nothing, store, <<call>>, TRUE)
       ELSE Outcome(<<>>, TRUE,
                    [id |-> StringValue(ServerURL(influx)),
                     output |-> [url |-> ServerURL(influx)]],
                    store, <<call>>, FALSE)

\* the attributes of the readiness data source: of the Plugin Framework schema, and of
\* the SDK v2 schema (with the id every SDK v2 data source has)
ReadyDataSourceAttributes == {"id", "url", "ready", "status", "started"}
LegacyReadyAttributes == {"id", "output"}

\* what the shipped example reads from the data source: output["url"]
ExampleReference == [attribute |-> "output", key |-> "url"]

\* the zero ReadyDataSourceModel
NoReadyModel ==
    [id |-> Null, url |-> Null, ready |-> NullBool, status |-> Null, started |-> Null]

\* a Read that reports a failed probe as a server that is not ready
ReadyDataSource_Read_ReportsNotReady(store, client, outcome) ==
    LET probe == Ready(store, outcome)
        call == Call("Ready", client, probe.err)
    IN Outcome(<<>>, TRUE,
               [id |-> StringValue(ServerURL(client)),
                url |-> StringValue(ServerURL(client)),
                ready |-> BoolValue(probe.err = Nil),
                status |-> StringValue("unknown"),
                started |-> StringValue("")],
               store, <<call>>, FALSE)

\* a Read that takes a result without a status for a server that is not ready
ReadyDataSource_Read_RequiresStatus(store, client, outcome) ==
    LET probe == Ready(store, outcome)
        call == Call("Ready", client, probe.err)
        serverURL == ServerURL(client)
    IN IF probe.err # Nil
       THEN Outcome(<<Diag("Error Checking Server Status",
                           "Could not check if server is ready: " \o probe.err)>>,
                    FALSE, NoReadyModel, store, <<call>>, FALSE)
       ELSE IF probe.result = <<>>
       THEN Outcome(<<>>, FALSE, NoReadyModel, store, <<call>>, TRUE)
       ELSE LET ready == probe.result[1]
            IN Outcome(<<>>, TRUE,
                       [id |-> StringValue(serverURL),
                        url |-> StringValue(serverURL),
                        ready |-> BoolValue(ready.Status # Nil),
                        status |-> IF ready.Status # Nil THEN StringValue(ready.Status)
                                   ELSE StringValue("unknown"),
                        started |-> IF ready.Started # <<>>
                                    THEN StringValue(TimeString(ready.Started[1]))
                                    ELSE StringValue("")],
                       store, <<call>>, FALSE)

ReadyDataSource_Read(store, client, outcome) ==
    LET probe == Ready(store, outcome)
        call == Call("Ready", client, probe.err)
        serverURL == ServerURL(client)
    IN IF probe.err # Nil
       THEN Outcome(<<Diag("Error Checking Server Status",
                           "Could not check if server is ready: " \o probe.err)>>,
                    FALSE, NoReadyModel, store, <<call>>, FALSE)
       ELSE IF probe.result = <<>>
       THEN Outcome(<<>>, FALSE, NoReadyModel, store, <<call>>, TRUE)
       ELSE LET ready == probe.result[1]
            IN Outcome(<<>>, TRUE,
                       [id |-> StringValue(serverURL),
                        url |-> StringValue(serverURL),
                        ready |-> BoolValue(TRUE),
                        status |-> IF ready.Status # Nil THEN StringValue(ready.Status)
                                   ELSE StringValue("unknown"),
                        started |-> IF ready.Started # <<>>
                                    THEN StringValue(TimeString(ready.Started[1]))
                                    ELSE StringValue("")],
                       store, <<call>>, FALSE)

(***************************************************************************)
(* The framework's side: configurations, plans and their classification.   *)
(***************************************************************************)
\* a configuration value left out is null; the schema's Default fills it in
Default(v, d) == IF v = Null THEN d ELSE v

\* UseStateForUnknown: a computed attribute keeps the state's value when there is one
UseState(useState, prior, attr) ==
    IF attr \in useState /\ prior # <<>> /\ prior[1][attr] # Null
    THEN prior[1][attr] ELSE Unknown

BucketConfig(name, description, org_id, rp, retention_rules) ==
    [name |-> name, description |-> description, org_id |-> org_id, rp |-> rp,
     retention_rules |-> retention_rules]

RuleHour == [every_seconds |-> 3600, type |-> "expire"]
RuleTwoHours == [every_seconds |-> 7200, type |-> Null]

\* the configurations a test step can apply: the minimal one, and ones that differ
\* from it in name and description, in rp and rules, and in organization
BucketConfigs ==
    { BucketConfig("test-bucket", Null, "org1", Null, <<RuleHour>>),
      BucketConfig("test-bucket-updated", "Updated description", "org1", Null,
                   <<RuleTwoHours>>),
      BucketConfig("test-bucket", "Test bucket description", "org1", "autogen",
                   <<RuleHour, RuleTwoHours>>),
      BucketConfig("test-bucket", Null, "org2", Null, <<RuleHour>>) }

\* the planned bucket: configuration with the schema's defaults, computed attributes
\* unknown unless UseStateForUnknown finds them in the prior state
BucketPlan(cfg, prior) ==
    [id |-> UseState(BucketUseStateForUnknown, prior, "id"),
     name |-> cfg.name,
     description |-> Default(cfg.description, ""),
     org_id |-> cfg.org_id,
     retention_rules |->
        SetValue([i \in 1..Len(cfg.retention_rules) |->
                    [every_seconds |-> cfg.retention_rules[i].every_seconds,
                     type |-> Default(cfg.retention_rules[i].type, "expire")]]),
     rp |-> Default(cfg.rp, ""),
     created_at |-> UseState(BucketUseStateForUnknown, prior, "created_at"),
     updated_at |-> UseState(BucketUseStateForUnknown, prior, "updated_at"),
     type |-> UseState(BucketUseStateForUnknown, prior, "type")]

ResourceConfig == [id |-> "bkt0", org |-> Null, org_id |-> "org1", type |-> "buckets"]

ReadPermission == [action |-> "read", resource |-> <<ResourceConfig>>]
WritePermission == [action |-> "write", resource |-> <<ResourceConfig>>]

AuthorizationConfig(org_id, description, status, permissions) ==
    [org_id |-> org_id, description |-> description, status |-> status,
     permissions |-> permissions]

\* the configurations a test step can apply: the minimal one, and ones that differ
\* from it in status alone, in description, in permissions, and in organization
AuthorizationConfigs ==
    { AuthorizationConfig("org1", Null, Null, <<ReadPermission>>),
      AuthorizationConfig("org1", Null, "inactive", <<ReadPermission>>),
      AuthorizationConfig("org1", "Updated description", Null, <<ReadPermission>>),
      AuthorizationConfig("org1", Null, Null, <<ReadPermission, WritePermission>>),
      AuthorizationConfig("org2", Null, Null, <<ReadPermission>>) }

AuthorizationPlan(cfg, prior) ==
    [id |-> UseState(AuthorizationUseStateForUnknown, prior, "id"),
     org_id |-> cfg.org_id,
     description |-> Default(cfg.description, ""),
     status |-> Default(cfg.status, "active"),
     permissions |->
        SetValue([i \in 1..Len(cfg.permissions) |->
                    [action |-> cfg.permissions[i].action,
                     resource |->
                        SetValue([j \in 1..Len(cfg.permissions[i].resource) |->
                                    [cfg.permissions[i].resource[j] EXCEPT
                                        !.org = Default(@, "")]])]]),
     user_id |-> UseState(AuthorizationUseStateForUnknown, prior, "user_id"),
     user_org_id |-> UseState(AuthorizationUseStateForUnknown, prior, "user_org_id"),
     token |-> UseState(AuthorizationUseStateForUnknown, prior, "token")]

\* provider blocks: url and token left out, empty, not yet known, or given
ProviderConfigs ==
    [url : {Null, "", Unknown, "http://influxdb:8086"},
     token : {Null, "", Unknown, "configured-token"}]

\* os.Getenv gives "" for a variable that is not set
Environments ==
    [INFLUXDB_V2_URL : {"", "http://localhost:9999"},
     INFLUXDB_V2_TOKEN : {"", "token0"}]

\* the plans a bucket operation can be given: one for each configuration, and one whose
\* retention rules ElementsAs cannot read
BucketPlans(prior) ==
    {BucketPlan(cfg, prior) : cfg \in BucketConfigs}
    \cup {[BucketPlan(BucketConfig("test-bucket", Null, "org1", Null, <<RuleHour>>), prior)
             EXCEPT !.retention_rules = UnknownSet]}

\* the plans an authorization Create can be given: one for each configuration, and ones
\* whose permissions, or the resources of a permission, ElementsAs cannot read
AuthorizationPlans(prior) ==
    LET plan == AuthorizationPlan(
                    AuthorizationConfig("org1", Null, Null, <<ReadPermission>>), prior)
    IN {AuthorizationPlan(cfg, prior) : cfg \in AuthorizationConfigs}
       \cup {[plan EXCEPT !.permissions = UnknownSet],
              [plan EXCEPT !.permissions =
                  SetValue(<<[action |-> "read", resource |-> UnknownSet]>>)]}

BucketConfigured == {"name", "description", "org_id", "retention_rules", "rp"}
AuthorizationConfigured == {"org_id", "description", "status", "permissions"}
SetAttributes == {"retention_rules", "permissions"}

AttrEqual(attr, a, b) ==
    IF attr \in SetAttributes THEN SetEqual(a[attr], b[attr]) ELSE a[attr] = b[attr]

\* what the framework makes of a plan against the prior state: nothing to do when no
\* configured attribute differs, a replacement (Delete, then Create) when an
\* attribute with RequiresReplace differs, an in-place Update otherwise
Classify(configured, requiresReplace, prior, plan) ==
    IF prior = <<>> THEN "create"
    ELSE IF \A a \in configured : AttrEqual(a, plan, prior[1]) THEN "noop"
    ELSE IF \E a \in requiresReplace : ~AttrEqual(a, plan, prior[1]) THEN "replace"
    ELSE "update"

BucketClassify(prior, plan) ==
    Classify(BucketConfigured, BucketRequiresReplace, prior, plan)

AuthorizationClassify(prior, plan) ==
    Classify(AuthorizationConfigured, AuthorizationRequiresReplace, prior, plan)

(***************************************************************************)
(* The state machine.                                                      *)
(***************************************************************************)
OnboardingBucket ==
    [Id |-> "bkt0", Name |-> "testbucket", Description |-> "", OrgID |-> "org1",
     Rp |-> "", RetentionRules |-> <<[EverySeconds |-> 0, Type |-> Nil]>>,
     CreatedAt |-> 0, UpdatedAt |-> 0, Type |-> "user"]

OnboardingAuth ==
    [Id |-> "auth0", OrgID |-> "org1", Description |-> "admin's Token",
     Status |-> "active", Permissions |-> <<>>, Token |-> "token0", UserID |-> "user0"]

NoOp == [name |-> "none", class |-> "none", given |-> <<>>, prior |-> <<>>,
         panic |-> FALSE, set |-> FALSE, again |-> FALSE]

\* the environment the setup exports, and the empty provider block of the tests
TestEnvironment ==
    [INFLUXDB_V2_URL |-> "http://localhost:8086", INFLUXDB_V2_TOKEN |-> "token0"]

NoProviderConfig == [url |-> Null, token |-> Null]

\* the provider of a process: before Configure, and after Configure returned `out`
Unconfigured ==
    [config |-> NoProviderConfig, env |-> TestEnvironment, client |-> <<>>,
     ResourceData |-> <<>>, DataSourceData |-> <<>>]

ProviderAfter(config, env, out) ==
    [config |-> config, env |-> env, client |-> out.client,
     ResourceData |-> out.ResourceData, DataSourceData |-> out.DataSourceData]

\* the state after construction; resources run in a process whose provider Configure
\* succeeded, the provider's own behaviour starts before Configure
InitWith(sparse) ==
    /\ kind \in {"bucket", "authorization", "provider"}
    /\ \E lt \in (IF kind = "authorization" THEN BOOLEAN ELSE {TRUE}) :
          remote = [buckets |-> <<OnboardingBucket>>, auths |-> <<OnboardingAuth>>,
                    nextId |-> 1, clock |-> 1, started |-> 0, listTokens |-> lt,
                    sparse |-> sparse]
    /\ provider = IF kind = "provider" THEN Unconfigured
                  ELSE ProviderAfter(NoProviderConfig, TestEnvironment,
                                     influxdbProvider_Configure(
                                        [sparse |-> sparse, started |-> 0],
                                        NoProviderConfig, TestEnvironment, NoFault))
    /\ state = <<>>
    /\ replacing = <<>>
    /\ op = NoOp
    /\ calls = <<>>
    /\ diags = <<>>
    /\ created = <<>>

Init == InitWith(FALSE)

\* a remote store that may also answer sparsely
InitSparse == InitWith(TRUE)

\* the last operation returned without an error diagnostic
Succeeded == ~HasError(diags) /\ ~op.panic

\* the variables after a handler returned `out`
Returned(name, class, given, out, newState, newReplacing, newCreated) ==
    /\ remote' = out.store
    /\ state' = newState
    /\ replacing' = newReplacing
    /\ op' = [name |-> name, class |-> class, given |-> <<given>>, prior |-> state,
              panic |-> out.panic, set |-> out.set,
              again |-> name = "Read" /\ op.name = "Read" /\ Succeeded]
    /\ calls' = out.calls
    /\ diags' = out.diags
    /\ created' = newCreated
    /\ UNCHANGED <<kind, provider>>

BucketCreate ==
    /\ kind = "bucket" /\ provider.ResourceData # <<>>
    /\ state = <<>> /\ remote.clock <= MaxClock
    /\ \E plan \in (IF replacing # <<>> THEN {replacing[1]}
                    ELSE BucketPlans(<<>>)),
          fault1 \in CreateOutcomes(remote), fault2 \in Faults :
          LET out == BucketResource_Create(remote, plan, fault1, fault2)
              saved == IF out.set /\ ~HasError(out.diags) THEN <<out.model>> ELSE <<>>
          IN Returned("Create", IF replacing # <<>> THEN "replace" ELSE "create",
                      plan, out, saved, <<>>, saved)

BucketRead ==
    /\ kind = "bucket" /\ provider.ResourceData # <<>>
    /\ state # <<>> /\ replacing = <<>>
    /\ \E fault \in Faults :
          LET out == BucketResource_Read(remote, state[1], fault)
          IN Returned("Read", "refresh", state[1], out,
                      IF out.set THEN <<out.model>> ELSE state, <<>>, created)

BucketUpdate ==
    /\ kind = "bucket" /\ provider.ResourceData # <<>>
    /\ state # <<>> /\ replacing = <<>> /\ remote.clock <= MaxClock
    /\ \E plan \in BucketPlans(state), fault1, fault2 \in Faults :
          LET out == BucketResource_Update(remote, plan, fault1, fault2)
          IN /\ BucketClassify(state, plan) = "update"
             /\ Returned("Update", "update", plan, out,
                         IF out.set THEN <<out.model>> ELSE state, <<>>,
                         IF out.store = remote THEN created ELSE <<>>)

\* Delete of a destroy (nothing follows) or of a replacement (Create follows)
BucketDelete ==
    /\ kind = "bucket" /\ provider.ResourceData # <<>>
    /\ state # <<>> /\ replacing = <<>> /\ remote.clock <= MaxClock
    /\ \E next \in {<<>>} \cup
                   {<<BucketPlan(cfg, <<>>)>> : cfg \in
                       {c \in BucketConfigs :
                           BucketClassify(state, BucketPlan(c, state)) = "replace"}},
          fault \in Faults :
          LET out == BucketResource_Delete(remote, state[1], fault)
              done == ~HasError(out.diags) /\ ~out.panic
          IN Returned("Delete", IF next = <<>> THEN "destroy" ELSE "replace",
                      state[1], out,
                      IF done THEN <<>> ELSE state,
                      IF done THEN next ELSE <<>>,
                      IF out.store = remote THEN created ELSE <<>>)

\* terraform import into an empty state: ImportState alone, Read is the next operation
BucketImportState ==
    /\ kind = "bucket" /\ replacing = <<>>
    /\ \E id \in {remote.buckets[i].Id : i \in 1..Len(remote.buckets)} :
          /\ state' = <<BucketResource_ImportState(id)>>
          /\ op' = [name |-> "ImportState", class |-> "import", given |-> <<>>,
                    prior |-> <<>>, panic |-> FALSE, set |-> TRUE, again |-> FALSE]
          /\ calls' = <<>>
          /\ diags' = <<>>
          /\ UNCHANGED <<kind, provider, remote, replacing, created>>

AuthorizationCreate ==
    /\ kind = "authorization" /\ provider.ResourceData # <<>>
    /\ state = <<>> /\ remote.clock <= MaxClock
    /\ \E plan \in (IF replacing # <<>> THEN {replacing[1]}
                    ELSE AuthorizationPlans(<<>>)),
          fault \in CreateOutcomes(remote) :
          LET out == AuthorizationResource_Create(remote, plan, fault)
              saved == IF out.set /\ ~HasError(out.diags) THEN <<out.model>> ELSE <<>>
          IN Returned("Create", IF replacing # <<>> THEN "replace" ELSE "create",
                      plan, out, saved, <<>>, saved)

AuthorizationRead ==
    /\ kind = "authorization" /\ provider.ResourceData # <<>>
    /\ state # <<>> /\ replacing = <<>>
    /\ \E fault \in ListOutcomes(remote) :
          LET out == AuthorizationResource_Read(remote, state[1], fault)
          IN Returned("Read", "refresh", state[1], out,
                      IF out.set THEN <<out.model>> ELSE state, <<>>, created)

AuthorizationUpdate ==
    /\ kind = "authorization" /\ provider.ResourceData # <<>>
    /\ state # <<>> /\ replacing = <<>>
    /\ remote.clock <= MaxClock
    /\ \E cfg \in AuthorizationConfigs, fault1 \in Faults,
          fault2 \in ListOutcomes(remote) :
          LET plan == AuthorizationPlan(cfg, state)
              out == AuthorizationResource_Update(remote, plan, fault1, fault2)
          IN /\ AuthorizationClassify(state, plan) = "update"
             /\ Returned("Update", "update", plan, out,
                         IF out.set THEN <<out.model>> ELSE state, <<>>,
                         IF out.store = remote THEN created ELSE <<>>)

AuthorizationDelete ==
    /\ kind = "authorization" /\ provider.ResourceData # <<>>
    /\ state # <<>> /\ replacing = <<>>
    /\ remote.clock <= MaxClock
    /\ \E next \in {<<>>} \cup
                   {<<AuthorizationPlan(cfg, <<>>)>> : cfg \in
                       {c \in AuthorizationConfigs :
                           AuthorizationClassify(state, AuthorizationPlan(c, state))
                               = "replace"}},
          fault \in Faults :
          LET out == AuthorizationResource_Delete(remote, state[1], fault)
              done == ~HasError(out.diags) /\ ~out.panic
          IN Returned("Delete", IF next = <<>> THEN "destroy" ELSE "replace",
                      state[1], out,
                      IF done THEN <<>> ELSE state,
                      IF done THEN next ELSE <<>>,
                      IF out.store = remote THEN created ELSE <<>>)

AuthorizationImportState ==
    /\ kind = "authorization" /\ replacing = <<>>
    /\ \E id \in {remote.auths[i].Id : i \in 1..Len(remote.auths)} :
          /\ state' = <<AuthorizationResource_ImportState(id)>>
          /\ op' = [name |-> "ImportState", class |-> "import", given |-> <<>>,
                    prior |-> <<>>, panic |-> FALSE, set |-> TRUE, again |-> FALSE]
          /\ calls' = <<>>
          /\ diags' = <<>>
          /\ UNCHANGED <<kind, provider, remote, replacing, created>>

\* Configure of a fresh provider process
ProviderConfigure ==
    /\ kind = "provider"
    /\ \E config \in ProviderConfigs, env \in Environments,
          outcome \in ReadyOutcomes(remote) :
          LET out == influxdbProvider_Configure(remote, config, env, outcome)
          IN /\ provider' = ProviderAfter(config, env, out)
             /\ op' = [name |-> "Configure", class |-> "configure",
                       given |-> <<Ready(remote, outcome)>>,
                       prior |-> state, panic |-> FALSE, set |-> FALSE,
                       again |-> FALSE]
             /\ calls' = out.calls
             /\ diags' = out.diags
    /\ UNCHANGED <<kind, remote, state, replacing, created>>

\* Read of the readiness data source, with the client its Configure took from
\* DataSourceData
ReadyDataSourceRead ==
    /\ kind = "provider" /\ provider.DataSourceData # <<>>
    /\ \E outcome \in ReadyOutcomes(remote) :
          LET client == provider.DataSourceData[1]
              out == ReadyDataSource_Read(remote, client, outcome)
          IN /\ state' = IF out.set THEN <<out.model>> ELSE state
             /\ op' = [name |-> "DataSourceRead", class |-> "refresh",
                       given |-> <<client, Ready(remote, outcome)>>,
                       prior |-> state, panic |-> out.panic,
                       set |-> out.set, again |-> FALSE]
             /\ calls' = out.calls
             /\ diags' = out.diags
    /\ UNCHANGED <<kind, provider, remote, replacing, created>>

\* someone else removes the managed entity from the remote store
OutOfBandDelete ==
    /\ kind # "provider" /\ state # <<>> /\ replacing = <<>> /\ remote.clock <= MaxClock
    /\ LET id == ValueString(state[1].id)
       IN /\ IF kind = "bucket" THEN BucketIndex(remote, id) # 0
                                ELSE AuthIndex(remote, id) # 0
          /\ remote' = IF kind = "bucket"
                       THEN DeleteBucketWithID(remote, id, NoFault).store
                       ELSE DeleteAuthorization(remote, [Id |-> id], NoFault).store
    /\ op' = [NoOp EXCEPT !.name = "OutOfBand"]
    /\ calls' = <<>>
    /\ diags' = <<>>
    /\ created' = <<>>
    /\ UNCHANGED <<kind, provider, state, replacing>>

\* someone else switches the managed authorization's status in the remote store
OutOfBandStatus ==
    /\ kind = "authorization" /\ provider.ResourceData # <<>>
    /\ state # <<>> /\ replacing = <<>>
    /\ remote.clock <= MaxClock
    /\ LET id == ValueString(state[1].id)
           i == AuthIndex(remote, id)
       IN /\ i # 0
          /\ remote' = UpdateAuthorizationStatus(
                          remote, [Id |-> id],
                          IF remote.auths[i].Status = "active" THEN "inactive"
                          ELSE "active", NoFault).store
    /\ op' = [NoOp EXCEPT !.name = "OutOfBand"]
    /\ calls' = <<>>
    /\ diags' = <<>>
    /\ created' = <<>>
    /\ UNCHANGED <<kind, provider, state, replacing>>

Next ==
    \/ BucketCreate
    \/ BucketRead
    \/ BucketUpdate
    \/ BucketDelete
    \/ BucketImportState
    \/ AuthorizationCreate
    \/ AuthorizationRead
    \/ AuthorizationUpdate
    \/ AuthorizationDelete
    \/ AuthorizationImportState
    \/ ProviderConfigure
    \/ ReadyDataSourceRead
    \/ OutOfBandDelete
    \/ OutOfBandStatus

Spec == Init /\ [][Next]_vars

\* the SDK v2 provider that main serves: its provider blocks, its state after
\* construction, its ConfigureFunc and the Read of its readiness data source
LegacyProviderConfigs ==
    [url : {Null, "http://influxdb:8086"}, token : {Null, "configured-token"}]

InitSDK ==
    /\ kind = "sdk"
    /\ remote = [buckets |-> <<OnboardingBucket>>, auths |-> <<OnboardingAuth>>,
                 nextId |-> 1, clock |-> 1, started |-> 0, listTokens |-> TRUE,
                 sparse |-> FALSE]
    /\ provider = Unconfigured
    /\ state = <<>>
    /\ replacing = <<>>
    /\ op = NoOp
    /\ calls = <<>>
    /\ diags = <<>>
    /\ created = <<>>

SDKProviderConfigure ==
    /\ kind = "sdk"
    /\ \E config \in LegacyProviderConfigs, env \in Environments,
          outcome \in ReadyOutcomes(remote) :
          LET out == providerConfigure(remote, Provider(config, env), outcome)
          IN /\ provider' = ProviderAfter(config, env, out)
             /\ op' = [name |-> "Configure", class |-> "configure",
                       given |-> <<Ready(remote, outcome)>>,
                       prior |-> state, panic |-> FALSE, set |-> FALSE,
                       again |-> FALSE]
             /\ calls' = out.calls
             /\ diags' = out.diags
    /\ UNCHANGED <<kind, remote, state, replacing, created>>

SDKDataGetReady ==
    /\ kind = "sdk" /\ provider.DataSourceData # <<>>
    /\ \E outcome \in ReadyOutcomes(remote) :
          LET influx == provider.DataSourceData[1]
              out == DataGetReady(remote, influx, outcome)
          IN /\ state' = IF out.set THEN <<out.model>> ELSE state
             /\ op' = [name |-> "DataSourceRead", class |-> "refresh",
                       given |-> <<influx, Ready(remote, outcome)>>,
                       prior |-> state, panic |-> out.panic,
                       set |-> out.set, again |-> FALSE]
             /\ calls' = out.calls
             /\ diags' = out.diags
    /\ UNCHANGED <<kind, provider, remote, replacing, created>>

NextSDK ==
    \/ SDKProviderConfigure
    \/ SDKDataGetReady

SpecSDK == InitSDK /\ [][NextSDK]_vars

\* convertPermissionsToDomain on its own: the permission sets a plan can carry, of up to
\* MaxPermissions permissions over up to MaxResources resources each, and the conversion
\* applied to one of them
MaxPermissions == 2
MaxResources == 2

Distinct(seq) == \A i, j \in 1..Len(seq) : i # j => seq[i] # seq[j]

SeqsUpTo(S, n) == {seq \in UNION {[1..k -> S] : k \in 0..n} : Distinct(seq)}

ResourceModels ==
    { [id |-> "bkt0", org |-> "", org_id |-> "org1", type |-> "buckets"],
      [id |-> "bkt1", org |-> "my-org", org_id |-> "org1", type |-> "buckets"],
      [id |-> "dash0", org |-> "", org_id |-> "org2", type |-> "dashboards"] }

PermissionModels ==
    [action : {"read", "write"},
     resource : {SetValue(rs) : rs \in SeqsUpTo(ResourceModels, MaxResources)}
                \cup {UnknownSet}]

PermissionSets ==
    {SetValue(ps) : ps \in SeqsUpTo(PermissionModels, MaxPermissions)} \cup {UnknownSet}

InitConvert ==
    /\ kind = "convert"
    /\ remote = [buckets |-> <<>>, auths |-> <<>>, nextId |-> 1, clock |-> 1,
                 started |-> 0, listTokens |-> TRUE, sparse |-> FALSE]
    /\ provider = Unconfigured
    /\ state = <<>>
    /\ replacing = <<>>
    /\ \E permsSet \in PermissionSets : op = [NoOp EXCEPT !.given = <<permsSet>>]
    /\ calls = <<>>
    /\ diags = <<>>
    /\ created = <<>>

ConvertPermissions ==
    /\ kind = "convert" /\ state = <<>>
    /\ state' = <<convertPermissionsToDomain(op.given[1])>>
    /\ op' = [op EXCEPT !.name = "convertPermissionsToDomain"]
    /\ UNCHANGED <<kind, provider, remote, replacing, calls, diags, created>>

NextConvert == ConvertPermissions

SpecConvert == InitConvert /\ [][NextConvert]_vars

SpecSparse == InitSparse /\ [][Next]_vars

(***************************************************************************)
(* Properties.                                                             *)
(***************************************************************************)
NonEmpty(v) == ValueString(v) # ""

\* the remote entity the state's id names, as a sequence of at most one
RemoteBucket(id) ==
    SelectSeq(remote.buckets, LAMBDA b : b.Id = id)

RemoteAuth(id) ==
    SelectSeq(remote.auths, LAMBDA a : a.Id = id)

\* C1: whenever bucket Create returns without an error diagnostic, the state it
\* persists has a non-empty id, created_at, updated_at and type, and its name,
\* description, org_id, rp and retention_rules are the plan's; a Read of that state,
\* with the remote bucket as Create left it, writes the same user-supplied values.
C1_CreateHydrated ==
    /\ (kind = "bucket" /\ op.name = "Create" /\ Succeeded) =>
          /\ state # <<>>
          /\ LET m == state[1]
                 plan == op.given[1]
             IN /\ NonEmpty(m.id) /\ NonEmpty(m.created_at)
                /\ NonEmpty(m.updated_at) /\ NonEmpty(m.type)
                /\ m.name = plan.name
                /\ m.description = plan.description
                /\ m.org_id = plan.org_id
                /\ m.rp = plan.rp
                /\ SetEqual(m.retention_rules, plan.retention_rules)
    /\ (kind = "bucket" /\ op.name = "Read" /\ Succeeded
            /\ created # <<>> /\ op.prior = created) =>
          \A a \in BucketConfigured : AttrEqual(a, state[1], created[1])

C1_Witness ==
    /\ kind = "bucket" /\ op.name = "Read" /\ Succeeded
    /\ created # <<>> /\ op.prior = created
    /\ state[1].rp = "autogen"
    /\ Len(state[1].retention_rules.elems) = 2

\* C2: for an existing authorization, a plan that changes permissions or description
\* is classified as a replacement, and no Update is invoked with a plan whose
\* permissions or description differ from the prior state's.
C2_ImmutableChangeReplaces ==
    /\ (kind = "authorization" /\ state # <<>>) =>
          \A cfg \in AuthorizationConfigs :
             LET plan == AuthorizationPlan(cfg, state)
             IN (\E a \in {"permissions", "description"} : ~AttrEqual(a, plan, state[1]))
                   => AuthorizationClassify(state, plan) = "replace"
    /\ (kind = "authorization" /\ op.name = "Update") =>
          \A a \in {"permissions", "description"} :
             AttrEqual(a, op.given[1], op.prior[1])

\* C3: for both resources, a plan whose org_id differs from the prior state's is
\* classified as a replacement, and every Update is invoked with the prior state's
\* org_id, which is the organization of the remote entity.
C3_OrgChangeReplaces ==
    /\ (kind = "bucket" /\ state # <<>>) =>
          \A cfg \in BucketConfigs :
             LET plan == BucketPlan(cfg, state)
             IN plan.org_id # state[1].org_id => BucketClassify(state, plan) = "replace"
    /\ (kind = "authorization" /\ state # <<>>) =>
          \A cfg \in AuthorizationConfigs :
             LET plan == AuthorizationPlan(cfg, state)
             IN plan.org_id # state[1].org_id
                   => AuthorizationClassify(state, plan) = "replace"
    /\ op.name = "Update" =>
          /\ op.given[1].org_id = op.prior[1].org_id
          /\ LET id == ValueString(op.given[1].id)
                 entity == IF kind = "bucket" THEN RemoteBucket(id) ELSE RemoteAuth(id)
             IN entity # <<>> => entity[1].OrgID = ValueString(op.given[1].org_id)

C3_Witness ==
    /\ op.name = "Create" /\ op.class = "replace" /\ Succeeded
    /\ state # <<>> /\ state[1].org_id = "org2"
    /\ state[1].id \in {BucketIdOf(2), AuthIdOf(2)}

\* what the list of the authorization's organization holds for the id, as Read sees it
Listed(model) ==
    SelectSeq(FindAuthorizationsByOrgID(remote, ValueString(model.org_id),
                                        NoFault).result[1],
              LAMBDA a : a.Id = ValueString(model.id))

\* C4, as claimed: authorization Read leaves permissions and token at their prior
\* values whatever the list returns; only status and the user ids may change.
C4_ReadKeepsPermissionsAndToken ==
    (kind = "authorization" /\ op.name = "Read" /\ Succeeded) =>
        \A a \in {"id", "org_id", "description", "permissions", "token"} :
           state[1][a] = op.prior[1][a]

\* C4, amended: authorization Read leaves id, org_id, description and permissions at
\* their prior values whatever the list returns; status follows the listed status;
\* token is set to the listed token when the list carries one and is left at its
\* prior value otherwise, so an issued token held in state is never changed.
C4_ReadKeepsPermissions ==
    (kind = "authorization" /\ op.name = "Read" /\ Succeeded) =>
        LET m == state[1]
            p == op.prior[1]
            listed == Listed(p)[1]
        IN /\ \A a \in {"id", "org_id", "description", "permissions"} : m[a] = p[a]
           /\ m.status = listed.Status
           /\ m.token = IF listed.Token # Nil THEN listed.Token ELSE p.token
           /\ p.token = RemoteAuth(ValueString(p.id))[1].Token => m.token = p.token

C4_Witness ==
    /\ kind = "authorization" /\ op.name = "Read" /\ Succeeded
    /\ op.prior[1].status = "active" /\ state[1].status = "inactive"
    /\ state[1].token = "token1" /\ op.prior[1].token = "token1"
    /\ Len(state[1].permissions.elems) = 2

\* C5: an authorization Read whose list call succeeds and holds no authorization
\* with the state's id returns the one error "authorization not found" and leaves the
\* persisted state as it was: neither emptied nor removed.
C5_ReadNotFound ==
    (kind = "authorization" /\ op.name = "Read" /\ calls # <<>> /\ calls[1].err = Nil
        /\ Listed(op.given[1]) = <<>>) =>
        /\ diags = <<Diag("Error Reading Authorization",
                          "Could not read authorization ID "
                              \o ValueString(op.given[1].id)
                              \o ": authorization not found")>>
        /\ state # <<>>
        /\ state = op.prior

C5_Witness ==
    /\ kind = "authorization" /\ op.name = "Read" /\ calls # <<>> /\ calls[1].err = Nil
    /\ Listed(op.given[1]) = <<>>
    /\ state[1].id = AuthIdOf(1) /\ state[1].token = "token1"

\* C6: authorization Update issues exactly one mutating call, its first,
\* UpdateAuthorizationStatus with the plan's id and status; no remote authorization
\* changes in anything but status, and only the plan's one changes; after a
\* successful Update the persisted status and the remote status are the plan's.
C6_UpdateOnlyStatus ==
    [][AuthorizationUpdate =>
          LET plan == op'.given[1]
              id == ValueString(plan.id)
              mutating == SelectSeq(calls', LAMBDA c : c.api # "FindAuthorizationsByOrgID")
          IN /\ Len(mutating) = 1
             /\ calls'[1] = mutating[1]
             /\ mutating[1].api = "UpdateAuthorizationStatus"
             /\ mutating[1].arg = [Id |-> id, Status |-> ValueString(plan.status)]
             /\ Len(remote'.auths) = Len(remote.auths)
             /\ \A i \in 1..Len(remote.auths) :
                   /\ remote'.auths[i] =
                         [remote.auths[i] EXCEPT !.Status = remote'.auths[i].Status]
                   /\ remote.auths[i].Id # id => remote'.auths[i] = remote.auths[i]
             /\ remote'.buckets = remote.buckets
             /\ ~HasError(diags') =>
                   /\ state'[1].status = plan.status
                   /\ \E i \in 1..Len(remote'.auths) :
                         /\ remote'.auths[i].Id = id
                         /\ remote'.auths[i].Status = ValueString(plan.status)
    ]_vars

C6_Witness ==
    /\ kind = "authorization" /\ op.name = "Update" /\ Succeeded
    /\ op.prior[1].status = "active" /\ state[1].status = "inactive"
    /\ RemoteAuth(state[1].id)[1].Status = "inactive"

\* C7: when the remote CreateBucket call fails, bucket Create returns the one error
\* "Error Creating Bucket" whose detail ends with the remote error text, persists no
\* state, and issues no other remote call.
C7_CreateBucketFailure ==
    (kind = "bucket" /\ op.name = "Create" /\ calls # <<>> /\ calls[1].err # Nil) =>
        /\ diags = <<Diag("Error Creating Bucket",
                          "Could not create bucket, unexpected error: " \o calls[1].err)>>
        /\ state = <<>>
        /\ Len(calls) = 1
        /\ calls[1].api = "CreateBucket"

C7_Witness ==
    /\ kind = "bucket" /\ op.name = "Create"
    /\ calls # <<>> /\ calls[1].api = "CreateBucket"
    /\ calls[1].err = "connection refused"

\* C8: Delete, of a bucket or an authorization, issues one remote delete for the
\* state's id; when that call fails, also because the entity is already gone, Delete
\* returns an error and the state is retained; when it succeeds the state is removed
\* and the entity is absent from the remote store.
C8_DeleteRetainsOnFailure ==
    op.name = "Delete" =>
        LET id == ValueString(op.prior[1].id)
            entity == IF kind = "bucket" THEN RemoteBucket(id) ELSE RemoteAuth(id)
        IN /\ Len(calls) = 1
           /\ calls[1].api = (IF kind = "bucket" THEN "DeleteBucketWithID"
                                                ELSE "DeleteAuthorization")
           /\ calls[1].arg = id
           /\ calls[1].err # Nil => (HasError(diags) /\ state = op.prior)
           /\ calls[1].err = Nil => (~HasError(diags) /\ state = <<>> /\ entity = <<>>)

C8_Witness ==
    /\ op.name = "Delete" /\ calls # <<>>
    /\ calls[1].err \in {"bucket not found", "authorization not found"}
    /\ state # <<>> /\ state = op.prior

\* C9: for a bucket created through Create and unchanged since, ImportState with its
\* id followed by a successful Read persists a state equal in every attribute to the
\* one Create persisted.
C9_ImportReadEqualsCreate ==
    (kind = "bucket" /\ op.name = "Read" /\ Succeeded /\ created # <<>>
        /\ op.prior = <<BucketResource_ImportState(created[1].id)>>) =>
        state = created

C9_Witness ==
    /\ kind = "bucket" /\ op.name = "Read" /\ Succeeded /\ created # <<>>
    /\ op.prior = <<BucketResource_ImportState(created[1].id)>>
    /\ state[1].rp = "autogen"
    /\ Len(state[1].retention_rules.elems) = 2

\* C10: for an authorization created through Create and unchanged since, ImportState
\* with its id alone followed by a Read whose list call succeeds finds the
\* authorization, which belongs to the organization it was created in, and persists
\* id, status, user_id and user_org_id equal to those Create persisted.
C10_AuthImportRead ==
    (kind = "authorization" /\ op.name = "Read" /\ created # <<>>
        /\ op.prior = <<AuthorizationResource_ImportState(created[1].id)>>
        /\ calls # <<>> /\ calls[1].err = Nil) =>
        /\ Succeeded
        /\ Listed(op.prior[1]) # <<>>
        /\ Listed(op.prior[1])[1].OrgID = created[1].org_id
        /\ \A a \in {"id", "status", "user_id", "user_org_id"} :
              state[1][a] = created[1][a]

C10_Witness ==
    /\ kind = "authorization" /\ op.name = "Read" /\ created # <<>>
    /\ op.prior = <<AuthorizationResource_ImportState(created[1].id)>>
    /\ Succeeded
    /\ state[1].status = "inactive" /\ state[1].user_org_id = "org1"
    /\ state[1].org_id = Null

\* C11: for bucket and for authorization, a successful Read that directly follows a
\* successful Read, the remote entity unchanged in between, writes a model equal in
\* every attribute to the one the first Read wrote.
C11_ReadTwiceSame ==
    (kind \in {"bucket", "authorization"} /\ op.name = "Read" /\ op.again /\ Succeeded) =>
        /\ op.set
        /\ state = op.prior

C11_Witness ==
    /\ op.name = "Read" /\ op.again /\ Succeeded /\ state = op.prior
    /\ \/ /\ kind = "bucket" /\ state[1].id = BucketIdOf(1)
          /\ state[1].updated_at # state[1].created_at
       \/ /\ kind = "authorization" /\ state[1].id = AuthIdOf(1)
          /\ state[1].status = "inactive"

\* C12: after Configure, the url it resolved is the configuration's when one is set,
\* otherwise the environment's when that is set, otherwise "http://localhost:8086";
\* the token is the configuration's when one is set, otherwise the environment's; and
\* a client, when one is constructed, is constructed with exactly these.
C12_ConfigThenEnvThenDefault ==
    (kind = "provider" /\ op.name = "Configure") =>
        LET config == provider.config
            env == provider.env
            url == IF config.url # Null THEN ValueString(config.url)
                   ELSE IF env.INFLUXDB_V2_URL # "" THEN env.INFLUXDB_V2_URL
                   ELSE "http://localhost:8086"
            token == IF config.token # Null THEN ValueString(config.token)
                     ELSE env.INFLUXDB_V2_TOKEN
        IN /\ resolveURL(config, env) = url
           /\ resolveToken(config, env) = token
           /\ provider.client # <<>> =>
                 provider.client[1] = NewClientWithOptions(url, token)

MissingToken ==
    Diag("Missing InfluxDB Token Configuration",
         "While configuring the provider, the InfluxDB token was not found in "
            \o "the INFLUXDB_V2_TOKEN environment variable or provider "
            \o "configuration block token attribute.")

\* C13: when the token Configure resolved is the empty string, Configure returns the
\* "Missing InfluxDB Token Configuration" error, has constructed no client and made
\* no readiness call, and ResourceData and DataSourceData are unset.
C13_MissingToken ==
    (kind = "provider" /\ op.name = "Configure"
        /\ resolveToken(provider.config, provider.env) = "") =>
        /\ \E i \in 1..Len(diags) : diags[i] = MissingToken
        /\ provider.client = <<>>
        /\ calls = <<>>
        /\ provider.ResourceData = <<>>
        /\ provider.DataSourceData = <<>>

C13_Witness ==
    /\ kind = "provider" /\ op.name = "Configure"
    /\ provider.config = [url |-> "http://influxdb:8086", token |-> Null]
    /\ provider.env.INFLUXDB_V2_TOKEN = ""
    /\ diags = <<MissingToken>>
    /\ provider.client = <<>>

\* C14: after Configure, ResourceData and DataSourceData are set exactly when the
\* readiness probe was made and answered without an error and with a status; they
\* then hold the one client Configure constructed and there is no diagnostic.  When
\* the probe failed or carried no status there is one error diagnostic and neither is
\* set; the data source reads only with a client a successful Configure exposed.
C14_ClientOnlyWhenReady ==
    /\ (kind = "provider" /\ op.name = "Configure") =>
          LET answer == op.given[1]
              probed == calls # <<>>
              ok == /\ probed /\ answer.err = Nil /\ answer.result # <<>>
                    /\ answer.result[1].Status # Nil
          IN /\ (provider.ResourceData # <<>> \/ provider.DataSourceData # <<>>) <=> ok
             /\ ok => /\ ~HasError(diags)
                       /\ Len(provider.client) = 1
                       /\ provider.ResourceData = provider.client
                       /\ provider.DataSourceData = provider.client
             /\ (probed /\ ~ok) => Len(diags) = 1
             /\ HasError(diags) =>
                   provider.ResourceData = <<>> /\ provider.DataSourceData = <<>>
    /\ (kind = "provider" /\ op.name = "DataSourceRead") =>
          /\ provider.DataSourceData # <<>>
          /\ <<op.given[1]>> = provider.DataSourceData
    /\ (kind # "provider" /\ op.name # "none") => provider.ResourceData # <<>>

C14_Witness ==
    /\ kind = "provider" /\ op.name = "Configure"
    /\ calls # <<>> /\ calls[1].err = Nil
    /\ op.given[1].result[1].Status = Nil
    /\ diags = <<Diag("InfluxDB Server Not Ready",
                      "The InfluxDB server is not ready to accept connections.")>>
    /\ provider.ResourceData = <<>> /\ provider.DataSourceData = <<>>
    /\ state # <<>>

\* C15: whenever the readiness data source Read writes state, ready is true and id
\* and url both equal the server URL of the client it read with; when the probe call
\* fails, Read returns an error diagnostic and writes nothing; no state of the data
\* source ever holds ready = false.
C15_ReadyOnlyTrue ==
    /\ (kind = "provider" /\ op.name = "DataSourceRead") =>
          /\ Len(calls) = 1 /\ calls[1].api = "Ready"
          /\ op.set =>
                /\ state # <<>>
                /\ state[1].ready = BoolValue(TRUE)
                /\ state[1].id = ServerURL(op.given[1])
                /\ state[1].url = ServerURL(op.given[1])
          /\ calls[1].err # Nil =>
                /\ HasError(diags)
                /\ ~op.set
                /\ state = op.prior
    /\ (kind = "provider" /\ state # <<>>) => state[1].ready = BoolValue(TRUE)

C15_Witness ==
    /\ kind = "provider" /\ op.name = "DataSourceRead"
    /\ calls[1].err = "connection refused"
    /\ diags = <<Diag("Error Checking Server Status",
                      "Could not check if server is ready: connection refused")>>
    /\ state # <<>> /\ state = op.prior
    /\ state[1].url = "http://localhost:9999"

\* C16: whenever bucket Read, Create or Update writes state, description and rp in it
\* are known strings, never null or unknown, equal to the remote bucket's description
\* and retention-policy name, and the empty string when the remote bucket has none.
C16_DescriptionAndRpNeverNull ==
    (kind = "bucket" /\ op.name \in {"Read", "Create", "Update"} /\ op.set) =>
        LET m == state[1]
            b == RemoteBucket(ValueString(m.id))[1]
        IN /\ m.description \notin {Null, Unknown}
           /\ m.rp \notin {Null, Unknown}
           /\ m.description = b.Description
           /\ m.rp = b.Rp

C16_Witness ==
    /\ kind = "bucket" /\ op.name = "Read" /\ op.set
    /\ op.prior = <<BucketResource_ImportState("bkt0")>>
    /\ op.prior[1].description = Null /\ op.prior[1].rp = Null
    /\ state[1].description = "" /\ state[1].rp = ""

\* C17: whenever bucket Read, Create or Update writes state, its retention_rules are
\* a known set with one rule for each distinct rule of the remote bucket: a remote
\* rule without a type gives type "expire", any other gives the remote type, and
\* each gives the remote every_seconds.
C17_RulesReadBack ==
    (kind = "bucket" /\ op.name \in {"Read", "Create", "Update"} /\ op.set) =>
        LET rules == RemoteBucket(ValueString(state[1].id))[1].RetentionRules
            model == state[1].retention_rules
        IN /\ model.known = "known"
           /\ Len(model.elems) = Cardinality({rules[i] : i \in 1..Len(rules)})
           /\ Len(model.elems) = Len(rules)
           /\ \A i \in 1..Len(rules) :
                 /\ model.elems[i].type \notin {Null, Unknown}
                 /\ model.elems[i].type =
                       (IF rules[i].Type = Nil THEN "expire" ELSE rules[i].Type)
                 /\ model.elems[i].every_seconds = rules[i].EverySeconds

C17_Witness ==
    /\ kind = "bucket" /\ op.name = "Read" /\ op.set
    /\ state[1].id = "bkt0"
    /\ RemoteBucket("bkt0")[1].RetentionRules = <<[EverySeconds |-> 0, Type |-> Nil]>>
    /\ state[1].retention_rules = SetValue(<<[every_seconds |-> 0, type |-> "expire"]>>)

\* C18: bucket Update, given retention rules it can convert, issues one UpdateBucket
\* call, its first, carrying the id of the prior state with the plan's name, description, retention rules and rp, and neither
\* created_at, updated_at nor type; when Update succeeds it has read the bucket back
\* and the state it persists is the remote bucket as it stands after the update,
\* with name and description equal to the plan's.
C18_UpdateSendsPlanAndRereads ==
    (kind = "bucket" /\ op.name = "Update"
        /\ op.given[1].retention_rules.known = "known") =>
        LET plan == op.given[1]
            sent == calls[1].arg
        IN /\ calls # <<>>
           /\ calls[1].api = "UpdateBucket"
           /\ \A i \in 2..Len(calls) : calls[i].api # "UpdateBucket"
           /\ sent.Id = ValueString(op.prior[1].id)
           /\ sent.Name = ValueString(plan.name)
           /\ sent.Description = ValueString(plan.description)
           /\ sent.Rp = ValueString(plan.rp)
           /\ sent.RetentionRules = convertRetentionRulesToDomain(plan.retention_rules).rules
           /\ DOMAIN sent \cap {"CreatedAt", "UpdatedAt", "Type"} = {}
           /\ Succeeded =>
                 LET m == state[1]
                     b == RemoteBucket(sent.Id)[1]
                 IN /\ Len(calls) = 2 /\ calls[2].api = "FindBucketByID"
                    /\ calls[2].arg = sent.Id
                    /\ m = populateBucket(m, BucketResponse(b))
                    /\ m.id = b.Id /\ m.org_id = b.OrgID /\ m.type = b.Type
                    /\ m.created_at = TimeString(b.CreatedAt)
                    /\ m.updated_at = TimeString(b.UpdatedAt)
                    /\ m.name = plan.name /\ m.name = b.Name
                    /\ m.description = plan.description /\ m.description = b.Description
                    /\ m.rp = plan.rp /\ m.rp = b.Rp
                    /\ SetEqual(m.retention_rules, plan.retention_rules)

C18_Witness ==
    /\ kind = "bucket" /\ op.name = "Update" /\ Succeeded
    /\ op.prior[1].name = "test-bucket"
    /\ state[1].name = "test-bucket-updated"
    /\ state[1].description = "Updated description"
    /\ state[1].updated_at # op.prior[1].updated_at
    /\ state[1].created_at = op.prior[1].created_at

\* C19: every operation returns with its diagnostics: none aborts with a panic, and
\* none whose remote call failed returns without an error diagnostic.
C19_NoPanicNoSilentFailure ==
    /\ ~op.panic
    /\ (\E i \in 1..Len(calls) : calls[i].err # Nil) => HasError(diags)

\* C20: within one Create, Read, Update or Delete no remote API method is called
\* twice, and a failed remote call is the operation's last call and leaves an error
\* diagnostic.
C20_NoRetry ==
    op.name \in {"Create", "Read", "Update", "Delete"} =>
        /\ \A i, j \in 1..Len(calls) : calls[i].api = calls[j].api => i = j
        /\ \A i \in 1..Len(calls) :
              calls[i].err # Nil => (i = Len(calls) /\ HasError(diags))

C20_Witness ==
    /\ kind = "bucket" /\ op.name = "Update"
    /\ Len(calls) = 2
    /\ calls[1].api = "UpdateBucket" /\ calls[1].err = Nil
    /\ calls[2].api = "FindBucketByID" /\ calls[2].err = "connection refused"
    /\ diags = <<Diag("Error Reading Bucket After Update",
                      "Could not read bucket after update: error finding bucket: "
                         \o "connection refused")>>

\* C21: for both resources, a Read is given the state's id and an Update a plan that
\* carries the state's id, and the state either leaves has that same id: an id, once
\* in the state, is changed by no Read and no Update.
C21_IdNeverChanges ==
    (kind \in {"bucket", "authorization"} /\ op.name \in {"Read", "Update"}) =>
        /\ op.prior # <<>>
        /\ op.given[1].id = op.prior[1].id
        /\ state # <<>>
        /\ state[1].id = op.prior[1].id

C21_Witness ==
    /\ op.name = "Update" /\ Succeeded /\ op.set
    /\ op.prior[1].id \in {BucketIdOf(1), AuthIdOf(1)}
    /\ state[1].id = op.prior[1].id
    /\ state[1] # op.prior[1]

\* C22: the state the Plugin Framework readiness data source writes has every
\* attribute of the SDK v2 one, among them the `output` map with the key "url" that
\* the shipped example reads.
C22_DropInReplacement ==
    (kind = "provider" /\ op.name = "DataSourceRead" /\ op.set) =>
        /\ DOMAIN state[1] = ReadyDataSourceAttributes
        /\ LegacyReadyAttributes \subseteq DOMAIN state[1]
        /\ ExampleReference.attribute \in DOMAIN state[1]
        /\ ExampleReference.key \in DOMAIN state[1][ExampleReference.attribute]

\* C23: a bucket Create or Update given retention rules it cannot convert, and an
\* authorization Create given permissions, or resources of a permission, it cannot
\* convert, returns one error diagnostic, has made no remote call and has written no
\* state.
C23_ConversionFailsBeforeAnyCall ==
    LET plan == op.given[1]
        failed ==
           \/ /\ kind = "bucket" /\ op.name \in {"Create", "Update"}
              /\ plan.retention_rules.known = "unknown"
           \/ /\ kind = "authorization" /\ op.name = "Create"
              /\ \/ plan.permissions.known = "unknown"
                 \/ \E i \in 1..Len(plan.permissions.elems) :
                       plan.permissions.elems[i].resource.known = "unknown"
    IN failed =>
          /\ Len(diags) = 1
          /\ diags[1].summary = (IF kind = "bucket" THEN "Error Converting Retention Rules"
                                  ELSE "Error Converting Permissions")
          /\ calls = <<>>
          /\ ~op.set
          /\ state = op.prior

C23_Witness ==
    /\ kind = "bucket" /\ op.name = "Update"
    /\ op.given[1].retention_rules = UnknownSet
    /\ diags = <<Diag("Error Converting Retention Rules",
                      "Could not convert retention rules: "
                         \o "error converting retention rules set")>>
    /\ calls = <<>>
    /\ state # <<>> /\ state = op.prior

\* C24: every remote call of an operation is made with the context the request handed
\* to that operation, never with a fresh background context.
C24_CallerContext ==
    \A i \in 1..Len(calls) : calls[i].ctx = RequestContext

\* the number of (permission, resource) pairs of a sequence of permissions
RECURSIVE ResourceCount(_)
ResourceCount(perms) ==
    IF perms = <<>> THEN 0
    ELSE Len(Head(perms).resource.elems) + ResourceCount(Tail(perms))

\* C25: convertPermissionsToDomain, given permissions it can read, yields one remote
\* permission for each resource of each permission, in order: as many as the resource
\* sets have elements together, each with the action of its permission and the id,
\* org, org_id and type of its resource; a permission without resources yields none.
C25_OnePermissionPerResource ==
    (kind = "convert" /\ state # <<>> /\ op.given[1].known = "known"
        /\ \A i \in 1..Len(op.given[1].elems) :
              op.given[1].elems[i].resource.known = "known") =>
       LET perms == op.given[1].elems
           out == state[1].permissions
       IN /\ state[1].err = Nil
          /\ Len(out) = ResourceCount(perms)
          /\ \A i \in 1..Len(perms) :
                \A j \in 1..Len(perms[i].resource.elems) :
                   LET k == ResourceCount(SubSeq(perms, 1, i - 1)) + j
                       res == perms[i].resource.elems[j]
                   IN /\ out[k].Action = perms[i].action
                      /\ out[k].Resource.Id = res.id
                      /\ out[k].Resource.Org = res.org
                      /\ out[k].Resource.OrgID = res.org_id
                      /\ out[k].Resource.Type = res.type

C25_Witness ==
    /\ kind = "convert" /\ state # <<>>
    /\ op.given[1].known = "known" /\ Len(op.given[1].elems) = 2
    /\ op.given[1].elems[1].resource = SetValue(<<>>)
    /\ Len(op.given[1].elems[2].resource.elems) = 2
    /\ state[1].err = Nil
    /\ Len(state[1].permissions) = 2
    /\ state[1].permissions[1].Action = op.given[1].elems[2].action
    /\ state[1].permissions[1].Resource.Id # state[1].permissions[2].Resource.Id

\* C26: when the mutating call of a bucket Create, a bucket Update or an authorization
\* Update succeeded and the read after it failed, the operation returns an error and
\* writes no state, and the store keeps the change: the bucket Create made exists
\* there under the plan's name while there is no state, and the entity an Update
\* changed carries the plan's values while the state is the one from before.
C26_NoRollbackAfterFailedRead ==
    LET plan == op.given[1]
        failedRead == Len(calls) = 2 /\ calls[1].err = Nil /\ calls[2].err # Nil
    IN /\ (kind = "bucket" /\ op.name = "Create" /\ failedRead) =>
             /\ HasError(diags) /\ ~op.set /\ state = <<>> /\ created = <<>>
             /\ Len(RemoteBucket(calls[2].arg)) = 1
             /\ RemoteBucket(calls[2].arg)[1].Name = ValueString(plan.name)
             /\ RemoteBucket(calls[2].arg)[1].OrgID = ValueString(plan.org_id)
       /\ (kind = "bucket" /\ op.name = "Update" /\ failedRead) =>
             /\ HasError(diags) /\ ~op.set /\ state = op.prior
             /\ Len(RemoteBucket(ValueString(state[1].id))) = 1
             /\ LET b == RemoteBucket(ValueString(state[1].id))[1]
                IN /\ b.Name = ValueString(plan.name)
                   /\ b.Description = ValueString(plan.description)
                   /\ b.RetentionRules =
                         convertRetentionRulesToDomain(plan.retention_rules).rules
       /\ (kind = "authorization" /\ op.name = "Update" /\ failedRead) =>
             /\ HasError(diags) /\ ~op.set /\ state = op.prior
             /\ Len(RemoteAuth(ValueString(state[1].id))) = 1
             /\ RemoteAuth(ValueString(state[1].id))[1].Status = ValueString(plan.status)

C26_Witness ==
    /\ kind = "bucket" /\ op.name = "Create"
    /\ Len(calls) = 2 /\ calls[1].err = Nil /\ calls[2].err = "connection refused"
    /\ diags[1].summary = "Error Reading Bucket After Creation"
    /\ state = <<>>
    /\ \E i \in 1..Len(remote.buckets) :
          /\ remote.buckets[i].Id = BucketIdOf(1)
          /\ remote.buckets[i].Name = ValueString(op.given[1].name)

\* C27, as claimed: after an authorization Update that changed description and returned
\* without an error, no description was sent, the persisted description is the plan's
\* and it differs from the description of the remote authorization; a Read leaves the
\* persisted description as it was.
C27_UpdateLeavesDescriptionsApart ==
    /\ (kind = "authorization" /\ op.name = "Update" /\ Succeeded
          /\ op.given[1].description # op.prior[1].description) =>
            /\ \A i \in 1..Len(calls) : calls[i].api = "UpdateAuthorizationStatus" =>
                  DOMAIN calls[i].arg = {"Id", "Status"}
            /\ state[1].description = op.given[1].description
            /\ RemoteAuth(state[1].id)[1].Description # ValueString(state[1].description)
    /\ (kind = "authorization" /\ op.name = "Read" /\ Succeeded /\ state # <<>>) =>
            state[1].description = op.prior[1].description

\* C27, amended: an authorization Update that changes description and returns without
\* an error has sent the id and the status only, persists the plan's description and
\* leaves the description of the remote authorization as it was, so that the two
\* differ unless the plan's description is the one the remote authorization already
\* had; a Read that keeps the state leaves the persisted description as it was.
C27_UpdateKeepsRemoteDescription ==
    [][/\ (AuthorizationUpdate /\ ~HasError(diags') /\ ~op'.panic
            /\ op'.given[1].description # state[1].description) =>
              LET id == ValueString(state[1].id)
                  before == SelectSeq(remote.auths, LAMBDA a : a.Id = id)
                  after == SelectSeq(remote'.auths, LAMBDA a : a.Id = id)
              IN /\ \A i \in 1..Len(calls') :
                       calls'[i].api = "UpdateAuthorizationStatus" =>
                          DOMAIN calls'[i].arg = {"Id", "Status"}
                 /\ state'[1].description = op'.given[1].description
                 /\ Len(before) = 1 /\ Len(after) = 1
                 /\ after[1].Description = before[1].Description
                 /\ (after[1].Description # ValueString(state'[1].description))
                       <=> (before[1].Description # ValueString(op'.given[1].description))
       /\ (AuthorizationRead /\ state' # <<>>) =>
              state'[1].description = state[1].description
    ]_vars

C27_Witness ==
    /\ kind = "authorization" /\ op.name = "Update" /\ Succeeded
    /\ op.prior[1].description = "Updated description"
    /\ op.given[1].description = ""
    /\ state[1].description = ""
    /\ RemoteAuth(state[1].id)[1].Description = ""
    /\ calls[1].arg = [Id |-> state[1].id, Status |-> state[1].status]

\* C28: the state an authorization Read writes has the org_id and the description of
\* the state it started from; a Read of the state ImportState wrote asks for the
\* authorizations of the organization "" and, when it writes state, leaves org_id and
\* description null.
C28_ReadLeavesOrgAndDescription ==
    (kind = "authorization" /\ op.name = "Read") =>
        /\ (op.set /\ state # <<>>) =>
              /\ state[1].org_id = op.prior[1].org_id
              /\ state[1].description = op.prior[1].description
        /\ op.prior = <<AuthorizationResource_ImportState(op.prior[1].id)>> =>
              /\ Len(calls) = 1
              /\ calls[1].api = "FindAuthorizationsByOrgID"
              /\ calls[1].arg = ""
              /\ state # <<>>
              /\ state[1].org_id = Null
              /\ state[1].description = Null

C28_Witness ==
    /\ kind = "authorization" /\ op.name = "Read" /\ Succeeded /\ op.set
    /\ op.prior = <<AuthorizationResource_ImportState(AuthIdOf(1))>>
    /\ calls = <<Call("FindAuthorizationsByOrgID", "", Nil)>>
    /\ state[1].org_id = Null /\ state[1].description = Null
    /\ state[1].user_org_id = "org1" /\ state[1].status = "active"
    /\ RemoteAuth(AuthIdOf(1))[1].OrgID = "org1"

\* C29: whatever the provider block and the environment hold for the url, the url
\* Configure resolves is not the empty string, the client it constructs has a server
\* url that is not empty, and none of its diagnostics is "Missing InfluxDB URL
\* Configuration".
C29_UrlNeverEmpty ==
    (kind = "provider" /\ op.name = "Configure") =>
        /\ resolveURL(provider.config, provider.env) # ""
        /\ provider.client # <<>> => ServerURL(provider.client[1]) # ""
        /\ \A i \in 1..Len(calls) : ServerURL(calls[i].arg) # ""
        /\ \A i \in 1..Len(diags) :
              diags[i].summary # "Missing InfluxDB URL Configuration"

C29_Witness ==
    /\ kind = "provider" /\ op.name = "Configure"
    /\ provider.config.url = "" /\ provider.env.INFLUXDB_V2_URL = ""
    /\ provider.client = <<NewClientWithOptions("http://localhost:8086",
                                                "configured-token")>>
    /\ diags = <<>>

\* C30: when the probe of the readiness data source answers with a result and no
\* error, Read writes a state whose ready is true, whose status is the status of the
\* result, or "unknown" when it has none, and whose started is the start time of the
\* result as a string, or "" when it has none; a result without a status, which Read
\* reports as ready, is one for which Configure returns "InfluxDB Server Not Ready"
\* and hands out no client.
C30_ReadyWhateverTheStatus ==
    (kind = "provider" /\ op.name = "DataSourceRead"
        /\ op.given[2].err = Nil /\ op.given[2].result # <<>>) =>
       LET ready == op.given[2].result[1]
           configure == influxdbProvider_Configure(remote, provider.config, provider.env,
                                                   NoStatus)
       IN /\ op.set /\ diags = <<>>
          /\ state[1].ready = BoolValue(TRUE)
          /\ state[1].status = (IF ready.Status # Nil THEN StringValue(ready.Status)
                                ELSE StringValue("unknown"))
          /\ state[1].started = (IF ready.Started # <<>>
                                 THEN StringValue(TimeString(ready.Started[1]))
                                 ELSE StringValue(""))
          /\ ready.Status = Nil =>
                /\ Ready(remote, NoStatus) = op.given[2]
                /\ configure.diags =
                      <<Diag("InfluxDB Server Not Ready",
                             "The InfluxDB server is not ready to accept connections.")>>
                /\ configure.ResourceData = <<>>
                /\ configure.DataSourceData = <<>>

C30_Witness ==
    /\ kind = "provider" /\ op.name = "DataSourceRead"
    /\ op.given[2] = [err |-> Nil, result |-> <<[Status |-> Nil, Started |-> <<>>]>>]
    /\ op.set
    /\ state[1].ready = BoolValue(TRUE)
    /\ state[1].status = "unknown"
    /\ state[1].started = ""

====
